---- MODULE Spec2Model ----
(***************************************************************************)
(* Collaborative whiteboard: the application state of App (element         *)
(* collection, undo/redo history, viewport), the pointer gesture handlers  *)
(* of Canvas, and the realtime reconciler of useCollaboration.             *)
(*                                                                         *)
(* Every React event handler runs to completion on the UI event loop and   *)
(* the component re-renders before the next event is dispatched, so each    *)
(* handler is one atomic action that reads the current state.              *)
(* historyIndex is 0-based as in the source; history is a TLA+ sequence,   *)
(* so the source's history[i] is history[i + 1] here.                      *)
(*                                                                         *)
(* Coordinates, sizes and the zoom are JavaScript numbers.  They are       *)
(* modelled as exact rationals [n, d] in lowest terms with d > 0, so that  *)
(* equal numbers are equal records; the rounding of IEEE doubles is not    *)
(* modelled.                                                               *)
(***************************************************************************)
EXTENDS Integers, Sequences, FiniteSets, TLC

VARIABLES
    elements,          \* App: useState<WhiteboardElement[]>
    history,           \* App: useState<WhiteboardElement[][]>
    historyIndex,      \* App: useState(0)
    activeTool,        \* App: useState<Tool>('pen')
    strokeColor,       \* App: useState('#000000')
    strokeWidth,       \* App: useState(2)
    viewport,          \* App: useState<ViewportState>
    drawingState,      \* Canvas: useState<DrawingState>
    isPanning,         \* Canvas: useState(false)
    lastPanPoint,      \* Canvas: useState<Point>
    nextId,            \* Canvas: source of generateId()
    collaboration,     \* useCollaboration: useState<CollaborationState>
    currentUser,       \* useCollaboration: useState<User | null>
    subscribed,        \* useCollaboration: onPresence/onMessage registered
    published,         \* messages the last handler gave blink.realtime.publish
    currentSession,    \* useWhiteboardPersistence: useState<Session | null>
    loadStatus,        \* App load effect: "idle" | "pending" | "done"
    saveRequest,       \* collections the last handler gave saveElements
    store,             \* whiteboardElements records of the session
    persistError,      \* useWhiteboardPersistence: useState<string | null>
    toasts,            \* number of toast.error calls (load effect's catch)
    saves,             \* saveElements calls under way, step by step
    richNote,          \* RichNoteCard: the richNote prop (Null: not mounted)
    content,           \* RichNoteCard: useState(richNote.content)
    timeouts,          \* RichNoteCard: pending setTimeout callbacks
    updates,           \* RichNoteCard: notes the last step gave onUpdate
    cardUser,          \* RichNoteCard: currentUser of its useCollaboration()
    lastEvent,         \* observer: the handler that ran last, with its input
    remoteDirty,       \* observer: a remote replacement is on display
    run,               \* observer: shape of the run so far (commits, undos)
    gesture,           \* observer: the drawing gesture under way, if any
    zoomEvents         \* observer: number of wheel and zoom-button events

appVars    == <<elements, history, historyIndex>>
toolVars   == <<activeTool, strokeColor, strokeWidth>>
canvasVars == <<drawingState, isPanning, lastPanPoint, nextId>>
storeVars  == <<store, persistError, toasts, saves>>
noteVars   == <<richNote, content, timeouts, updates, cardUser>>
vars == <<elements, history, historyIndex, activeTool, strokeColor,
          strokeWidth, viewport, drawingState, isPanning, lastPanPoint,
          nextId, collaboration, currentUser, subscribed, published,
          currentSession, loadStatus, saveRequest, store, persistError,
          toasts, saves, richNote, content, timeouts, updates, cardUser,
          lastEvent,
          remoteDirty, run, gesture, zoomEvents>>

----------------------------------------------------------------------------
(* Bounds of the exploration *)

MaxHistory  == 3      \* longest snapshot sequence
MaxIds      == 2      \* number of ids generateId() hands out
MaxPath     == 2      \* points of a pen stroke
MaxPan      == 2      \* distance of the viewport offset from the origin
MaxZoom     == 3      \* wheel and zoom-button events
MaxGestures == 1      \* drawing or pan gestures of one exploration
MaxComments == 2      \* comments of the note's thread
MaxSaves    == 2      \* saveElements calls under way at a time

----------------------------------------------------------------------------
(* Values *)

Null      == [null |-> TRUE]
NoMessage == [type |-> "none"]

\* JavaScript numbers as rationals in lowest terms.
Abs(i) == IF i < 0 THEN -i ELSE i

RECURSIVE Gcd(_, _)
Gcd(a, b) == IF b = 0 THEN a ELSE Gcd(b, a % b)

Norm(num, den) ==
    IF den = 1 THEN [n |-> num, d |-> 1]
    ELSE LET g == Gcd(Abs(num), Abs(den))
             sign == IF den < 0 THEN -1 ELSE 1
         IN  [n |-> sign * (num \div g), d |-> sign * (den \div g)]

Q(i)       == [n |-> i, d |-> 1]
Frac(a, b) == Norm(a, b)
QNeg(a)    == [n |-> -a.n, d |-> a.d]
QAdd(a, b) ==
    IF a.d = 1 /\ b.d = 1 THEN Q(a.n + b.n)
    ELSE LET g == Gcd(a.d, b.d)
         IN  Norm(a.n * (b.d \div g) + b.n * (a.d \div g),
                  (a.d \div g) * b.d)
QSub(a, b) == QAdd(a, QNeg(b))
QMul(a, b) ==
    IF a.d = 1 /\ b.d = 1 THEN Q(a.n * b.n)
    ELSE IF a.n = 0 \/ b.n = 0 THEN Q(0)
    ELSE LET g1 == Gcd(Abs(a.n), b.d)
             g2 == Gcd(Abs(b.n), a.d)
         IN  Norm((a.n \div g1) * (b.n \div g2),
                  (a.d \div g2) * (b.d \div g1))
QInv(a)    == IF a.n = 1 THEN Q(a.d) ELSE Norm(a.d, a.n)
QDiv(a, b) == QMul(a, QInv(b))
QLe(a, b)  ==
    IF a.d = 1 /\ b.d = 1 THEN a.n <= b.n
    ELSE LET g == Gcd(a.d, b.d)
         IN  a.n * (b.d \div g) <= b.n * (a.d \div g)
QLt(a, b)  == ~QLe(b, a)
QMin(a, b) == IF QLe(a, b) THEN a ELSE b
QMax(a, b) == IF QLe(a, b) THEN b ELSE a

Pt(px, py) == [x |-> px, y |-> py]
QPt(i, j)  == Pt(Q(i), Q(j))

Me          == "me"
RemoteUsers == {"u2", "u3"}
SessionId   == "session_1"

DefaultStrokeColor == "#000000"
DefaultStrokeWidth == 2
StickyNoteSize     == Q(100)
StickyNoteFill     == "#fef08a"

\* The canvas fills the window: getBoundingClientRect() is at the origin.
RectLeft == Q(0)
RectTop  == Q(0)

\* Pointer positions and tools offered to the handlers.
ScreenPoints == {QPt(1, 1)}
ToolsUsed    == {"select", "pen"}

\* Pointer positions, tools, colours and wheel turns of the gesture and
\* viewport explorations.
GesturePoints == {QPt(10, 10), QPt(110, 60)}
PanPoints     == {QPt(1, 1), QPt(3, 2)}
GestureTools  == {"rectangle", "circle", "line"}
SelectTools   == {"select", "rectangle"}
StrokeColors  == {"#000000", "#EF4444"}
StrokeWidths  == {2, 4}
WheelPoints   == {QPt(3, 2)}
WheelEvents   ==
    {[x |-> p.x, y |-> p.y, deltaY |-> dy] :
        p \in WheelPoints, dy \in {-100, 100}}

----------------------------------------------------------------------------
(* Canvas: pure helpers *)

\* Variant: the offset is subtracted after the division by the zoom.
screenToCanvas_OffsetAfter(screenX, screenY) ==
    Pt(QSub(QDiv(QSub(screenX, RectLeft), viewport.zoom), viewport.x),
       QSub(QDiv(QSub(screenY, RectTop), viewport.zoom), viewport.y))

screenToCanvas(screenX, screenY) ==
    Pt(QDiv(QSub(QSub(screenX, RectLeft), viewport.x), viewport.zoom),
       QDiv(QSub(QSub(screenY, RectTop), viewport.y), viewport.zoom))

\* redraw: ctx.translate(viewport.x, viewport.y); ctx.scale(zoom, zoom) puts
\* the world point w at w * zoom + offset.
forwardTransform(w) ==
    Pt(QAdd(QMul(w.x, viewport.zoom), viewport.x),
       QAdd(QMul(w.y, viewport.zoom), viewport.y))

createNewElement(tool, point, color, width, id) ==
    CASE tool = "pen" ->
           [id |-> id, type |-> "path", x |-> point.x, y |-> point.y,
            points |-> <<point>>, color |-> color, strokeWidth |-> width]
      [] tool = "text" ->
           [id |-> id, type |-> "text", x |-> point.x, y |-> point.y,
            text |-> "Text", color |-> color, strokeWidth |-> width]
      [] tool = "sticky-note" ->
           [id |-> id, type |-> "sticky-note", x |-> point.x, y |-> point.y,
            width |-> StickyNoteSize, height |-> StickyNoteSize,
            text |-> "Note", color |-> color, strokeWidth |-> width,
            fill |-> StickyNoteFill]
      [] OTHER ->
           [id |-> id, type |-> tool, x |-> point.x, y |-> point.y,
            width |-> Q(0), height |-> Q(0), color |-> color,
            strokeWidth |-> width]

\* Variant: the box is normalised, width and height are never negative.
updateElementWithPoint_Normalised(element, point, currentPath) ==
    CASE element.type = "path" ->
           [element EXCEPT !.points = Append(currentPath, point)]
      [] element.type \in {"rectangle", "circle", "line"} ->
           [element EXCEPT
               !.width = QMax(QSub(point.x, element.x),
                              QSub(element.x, point.x)),
               !.height = QMax(QSub(point.y, element.y),
                               QSub(element.y, point.y))]
      [] OTHER -> element

updateElementWithPoint(element, point, currentPath) ==
    CASE element.type = "path" ->
           [element EXCEPT !.points = Append(currentPath, point)]
      [] element.type \in {"rectangle", "circle"} ->
           [element EXCEPT !.width = QSub(point.x, element.x),
                           !.height = QSub(point.y, element.y)]
      [] element.type = "line" ->
           [element EXCEPT !.width = QSub(point.x, element.x),
                           !.height = QSub(point.y, element.y)]
      [] OTHER -> element

\* element.width || 0, element.height || 0
WidthOr0(element) ==
    IF "width" \in DOMAIN element THEN element.width ELSE Q(0)
HeightOr0(element) ==
    IF "height" \in DOMAIN element THEN element.height ELSE Q(0)

Min2(a, b) == QMin(a, b)

\* Variant: the box is taken between its two corners whichever way it was
\* dragged.
isPointInElement_Normalised(point, element) ==
    LET w == WidthOr0(element)
        h == HeightOr0(element)
        left == QMin(element.x, QAdd(element.x, w))
        right == QMax(element.x, QAdd(element.x, w))
        top == QMin(element.y, QAdd(element.y, h))
        bottom == QMax(element.y, QAdd(element.y, h))
        absW == QSub(right, left)
        absH == QSub(bottom, top)
    IN  CASE element.type \in {"rectangle", "sticky-note"} ->
               /\ QLe(left, point.x)
               /\ QLe(point.x, right)
               /\ QLe(top, point.y)
               /\ QLe(point.y, bottom)
          [] element.type = "circle" ->
               LET centerX == QAdd(left, QDiv(absW, Q(2)))
                   centerY == QAdd(top, QDiv(absH, Q(2)))
                   radius == QMin(QDiv(absW, Q(2)), QDiv(absH, Q(2)))
                   dx == QSub(point.x, centerX)
                   dy == QSub(point.y, centerY)
               IN  QLe(QAdd(QMul(dx, dx), QMul(dy, dy)),
                       QMul(radius, radius))
          [] OTHER -> FALSE

\* Variant: the circle's radius is half the larger side of its box.
isPointInElement_LargerSide(point, element) ==
    CASE element.type \in {"rectangle", "sticky-note"} ->
           /\ QLe(element.x, point.x)
           /\ QLe(point.x, QAdd(element.x, WidthOr0(element)))
           /\ QLe(element.y, point.y)
           /\ QLe(point.y, QAdd(element.y, HeightOr0(element)))
      [] element.type = "circle" ->
           LET centerX == QAdd(element.x, QDiv(WidthOr0(element), Q(2)))
               centerY == QAdd(element.y, QDiv(HeightOr0(element), Q(2)))
               radius == QMax(QDiv(WidthOr0(element), Q(2)),
                              QDiv(HeightOr0(element), Q(2)))
               dx == QSub(point.x, centerX)
               dy == QSub(point.y, centerY)
           IN  /\ QLe(Q(0), radius)
               /\ QLe(QAdd(QMul(dx, dx), QMul(dy, dy)),
                      QMul(radius, radius))
      [] OTHER -> FALSE

\* For the circle, distance <= radius with distance = sqrt(dx^2 + dy^2) >= 0
\* is radius >= 0 and dx^2 + dy^2 <= radius^2.
isPointInElement(point, element) ==
    CASE element.type \in {"rectangle", "sticky-note"} ->
           /\ QLe(element.x, point.x)
           /\ QLe(point.x, QAdd(element.x, WidthOr0(element)))
           /\ QLe(element.y, point.y)
           /\ QLe(point.y, QAdd(element.y, HeightOr0(element)))
      [] element.type = "circle" ->
           LET centerX == QAdd(element.x, QDiv(WidthOr0(element), Q(2)))
               centerY == QAdd(element.y, QDiv(HeightOr0(element), Q(2)))
               radius == Min2(QDiv(WidthOr0(element), Q(2)),
                              QDiv(HeightOr0(element), Q(2)))
               dx == QSub(point.x, centerX)
               dy == QSub(point.y, centerY)
           IN  /\ QLe(Q(0), radius)
               /\ QLe(QAdd(QMul(dx, dx), QMul(dy, dy)),
                      QMul(radius, radius))
      [] OTHER -> FALSE

\* { ...el, selected: flag }
WithSelected(el, flag) ==
    [f \in DOMAIN el \cup {"selected"} |->
        IF f = "selected" THEN flag ELSE el[f]]

\* Variant: the match drawn last (topmost) is picked.
FindClicked_Last(els, point) ==
    IF \E i \in 1..Len(els) : isPointInElement(point, els[i])
    THEN CHOOSE i \in 1..Len(els) :
            /\ isPointInElement(point, els[i])
            /\ \A j \in (i + 1)..Len(els) : ~isPointInElement(point, els[j])
    ELSE 0

\* elements.find(el => isPointInElement(point, el)): index of the first match,
\* 0 when there is none.
FindClicked(els, point) ==
    IF \E i \in 1..Len(els) : isPointInElement(point, els[i])
    THEN CHOOSE i \in 1..Len(els) :
            /\ isPointInElement(point, els[i])
            /\ \A j \in 1..(i - 1) : ~isPointInElement(point, els[j])
    ELSE 0

----------------------------------------------------------------------------
(* Inputs from the outside world *)

LocalIds == <<"e1", "e2", "e3", "e4", "e5", "e6">>

\* Elements drawn by other users (their ids never collide with local ones).
R1 == [id |-> "r1", type |-> "rectangle", x |-> Q(0), y |-> Q(0),
       width |-> Q(2), height |-> Q(2), color |-> "#ff0000",
       strokeWidth |-> 2]
R2 == [id |-> "r2", type |-> "path", x |-> Q(0), y |-> Q(0),
       points |-> <<QPt(0, 0), QPt(1, 1)>>, color |-> "#ff0000",
       strokeWidth |-> 2]

RemoteIds      == {"r1", "r2"}
RemotePayloads == {<<>>, <<R1>>, <<R2>>}
Timestamps     == {1, 2}
CursorPoints   == {QPt(1, 1), QPt(3, 2)}

Metadata(userId) == [displayName |-> userId, color |-> "#FF6B6B"]

ElementsUpdateMessages ==
    {[type |-> "elements-update", userId |-> u,
      data |-> [elements |-> p, timestamp |-> t], metadata |-> Metadata(u)] :
        u \in RemoteUsers \cup {Me}, p \in RemotePayloads, t \in Timestamps}

CursorMoveMessages ==
    {[type |-> "cursor-move", userId |-> u,
      data |-> [x |-> c.x, y |-> c.y, timestamp |-> t],
      metadata |-> Metadata(u)] :
        u \in RemoteUsers \cup {Me}, c \in CursorPoints, t \in Timestamps}

InboundMessages == ElementsUpdateMessages \cup CursorMoveMessages

\* The elements-update deliveries explored together with the local history:
\* two senders, the older timestamp on the message that empties the board.
HistoryMessages ==
    {m \in ElementsUpdateMessages :
        \/ (m.userId = "u2" /\ m.data.timestamp = 2 /\ m.data.elements = <<R1>>)
        \/ (m.userId = "u3" /\ m.data.timestamp = 1 /\ m.data.elements = <<>>)}

PresenceLists == {<<Me>>, <<Me, "u2">>}

\* What the store returns to the initial load: nothing, or a saved snapshot.
S1 == [id |-> "s1", type |-> "text", x |-> Q(1), y |-> Q(1), text |-> "Text",
       color |-> "#000000", strokeWidth |-> 2]
LoadResults == {<<>>, <<S1>>}

NoSession == "none"
NoUser    == "none"

----------------------------------------------------------------------------
(* Observers *)

Event(kind, extra) ==
    extra @@ [kind |-> kind, recorded |-> FALSE, truncated |-> FALSE,
              effective |-> FALSE, dirty |-> FALSE, msg |-> NoMessage,
              prev |-> NoMessage, before |-> Null, undone |-> Null,
              afterTruncate |-> FALSE]

RunOther == [phase |-> "other", commits |-> 0, undos |-> 0]

RunAfterCommit ==
    IF run.phase = "commits"
    THEN [run EXCEPT !.commits = @ + 1]
    ELSE RunOther

RunAfterUndo ==
    IF run.phase \in {"commits", "undos"} /\ run.undos <= run.commits
    THEN [run EXCEPT !.phase = "undos", !.undos = @ + 1]
    ELSE RunOther

----------------------------------------------------------------------------
(* App *)

\* The state of App, Canvas and the hooks after construction, for a given
\* tool selection, viewport and observer record.
InitApp(tool, view, event) ==
    /\ elements = <<>>
    /\ history = <<(<<>>)>>
    /\ historyIndex = 0
    /\ activeTool = tool
    /\ strokeColor = DefaultStrokeColor
    /\ strokeWidth = DefaultStrokeWidth
    /\ viewport = view
    /\ drawingState = [isDrawing |-> FALSE, currentPath |-> <<>>,
                       currentElement |-> Null]
    /\ isPanning = FALSE
    /\ lastPanPoint = QPt(0, 0)
    /\ nextId = 1
    /\ collaboration = [users |-> <<>>, cursors |-> <<>>,
                        isConnected |-> FALSE]
    /\ currentUser = NoUser
    /\ subscribed = FALSE
    /\ published = <<>>
    /\ currentSession = NoSession
    /\ loadStatus = "idle"
    /\ saveRequest = <<>>
    /\ store = <<>>
    /\ persistError = Null
    /\ toasts = 0
    /\ saves = <<>>
    /\ lastEvent = event
    /\ remoteDirty = FALSE
    /\ run = [phase |-> "commits", commits |-> 0, undos |-> 0]
    /\ gesture = Null
    /\ zoomEvents = 0

\* Canvas imports RichNoteCard and renders none.
NoCard ==
    /\ richNote = Null
    /\ content = ""
    /\ timeouts = <<>>
    /\ updates = <<>>
    /\ cardUser = NoUser

InitState(tool, view, event) ==
    /\ InitApp(tool, view, event)
    /\ NoCard

InitialViewport == [x |-> Q(0), y |-> Q(0), zoom |-> Q(1)]

Init == InitState("pen", InitialViewport, Event("init", [kind |-> "init"]))

\* Variant: per-element merge, local elements the payload lacks are kept.
handleCollaborativeElementsUpdate_Merge(newElements) ==
    /\ elements' =
          SelectSeq(elements,
                    LAMBDA el : \A k \in 1..Len(newElements) :
                                   newElements[k].id # el.id)
          \o newElements
    /\ UNCHANGED <<history, historyIndex>>

\* setElements(newElements); history deliberately untouched.
handleCollaborativeElementsUpdate(newElements) ==
    /\ elements' = newElements
    /\ UNCHANGED <<history, historyIndex>>

\* Variant: the new snapshot is pushed onto the whole history, redo branch
\* included.
handleElementsChange_NoTruncate(newElements) ==
    LET newHistory == Append(history, newElements)
    IN  /\ elements' = newElements
        /\ history' = newHistory
        /\ historyIndex' = Len(newHistory) - 1
        /\ saveRequest' = IF currentSession # NoSession
                          THEN <<newElements>> ELSE <<>>

\* setElements, truncate-and-append to history, start a save.
handleElementsChange(newElements) ==
    LET newHistory == Append(SubSeq(history, 1, historyIndex + 1), newElements)
    IN  /\ elements' = newElements
        /\ history' = newHistory
        /\ historyIndex' = Len(newHistory) - 1
        /\ saveRequest' = IF currentSession # NoSession
                          THEN <<newElements>> ELSE <<>>

\* Room for one more snapshot after handleElementsChange's truncation.
HistoryRoom == historyIndex + 2 <= MaxHistory

\* Variant: setHistoryIndex without setElements.
handleUndoBody_IndexOnly ==
    IF historyIndex > 0
    THEN /\ historyIndex' = historyIndex - 1
         /\ UNCHANGED elements
    ELSE UNCHANGED <<historyIndex, elements>>

\* Variant: an undo first takes back a remote replacement on display.
handleUndoBody_KeepRemote ==
    IF historyIndex > 0
    THEN IF elements # history[historyIndex + 1]
         THEN /\ elements' = history[historyIndex + 1]
              /\ UNCHANGED historyIndex
         ELSE /\ historyIndex' = historyIndex - 1
              /\ elements' = history[(historyIndex - 1) + 1]
    ELSE UNCHANGED <<historyIndex, elements>>

\* Variant: guard historyIndex > 1.
handleUndoBody_OffByOne ==
    IF historyIndex > 1
    THEN /\ historyIndex' = historyIndex - 1
         /\ elements' = history[(historyIndex - 1) + 1]
    ELSE UNCHANGED <<historyIndex, elements>>

\* Variant: no guard on the lower end of the stack.
handleUndoBody_NoGuard ==
    /\ historyIndex' = historyIndex - 1
    /\ elements' = IF historyIndex > 0
                   THEN history[(historyIndex - 1) + 1] ELSE <<>>

handleUndoBody ==
    IF historyIndex > 0
    THEN /\ historyIndex' = historyIndex - 1
         /\ elements' = history[(historyIndex - 1) + 1]
    ELSE UNCHANGED <<historyIndex, elements>>

\* Variant: undo goes through the path of a local change: the collection it
\* restores is broadcast and saved.
handleUndo_Shared ==
    /\ handleUndoBody
    /\ UNCHANGED <<gesture, zoomEvents, storeVars, noteVars>>
    /\ published' = IF currentUser = NoUser
                    THEN <<>>
                    ELSE <<[type |-> "elements-update",
                            userId |-> currentUser,
                            data |-> [elements |-> elements']]>>
    /\ saveRequest' = IF currentSession # NoSession
                      THEN <<elements'>> ELSE <<>>
    /\ UNCHANGED <<history, toolVars, viewport, canvasVars, collaboration,
                   currentUser, subscribed, currentSession, loadStatus>>
    /\ lastEvent' = Event("undo", [effective |-> historyIndex > 0,
                                   dirty |-> remoteDirty,
                                   before |->
                                     [elements |-> elements,
                                      historyIndex |-> historyIndex,
                                      idle |-> ~drawingState.isDrawing
                                               /\ ~isPanning]])
    /\ remoteDirty' = IF historyIndex > 0 THEN FALSE ELSE remoteDirty
    /\ run' = RunAfterUndo

handleUndo ==
    /\ handleUndoBody
    /\ UNCHANGED <<gesture, zoomEvents, storeVars, noteVars>>
    /\ published' = <<>>
    /\ saveRequest' = <<>>
    /\ UNCHANGED <<history, toolVars, viewport, canvasVars, collaboration,
                   currentUser, subscribed, currentSession, loadStatus>>
    /\ lastEvent' = Event("undo", [effective |-> historyIndex > 0,
                                   dirty |-> remoteDirty,
                                   before |->
                                     [elements |-> elements,
                                      historyIndex |-> historyIndex,
                                      idle |-> ~drawingState.isDrawing
                                               /\ ~isPanning]])
    /\ remoteDirty' = IF historyIndex > 0 THEN FALSE ELSE remoteDirty
    /\ run' = RunAfterUndo

handleRedoBody ==
    IF historyIndex < Len(history) - 1
    THEN /\ historyIndex' = historyIndex + 1
         /\ elements' = history[(historyIndex + 1) + 1]
    ELSE UNCHANGED <<historyIndex, elements>>

handleRedo ==
    /\ handleRedoBody
    /\ UNCHANGED <<gesture, zoomEvents, storeVars, noteVars>>
    /\ published' = <<>>
    /\ saveRequest' = <<>>
    /\ UNCHANGED <<history, toolVars, viewport, canvasVars, collaboration,
                   currentUser, subscribed, currentSession, loadStatus>>
    /\ lastEvent' = Event("redo",
                          [effective |-> historyIndex < Len(history) - 1,
                           afterTruncate |-> lastEvent.recorded
                                             /\ lastEvent.truncated,
                           undone |-> IF lastEvent.kind = "undo"
                                         /\ lastEvent.effective
                                      THEN lastEvent.before ELSE Null])
    /\ remoteDirty' = IF historyIndex < Len(history) - 1
                      THEN FALSE ELSE remoteDirty
    /\ run' = IF historyIndex < Len(history) - 1
              THEN RunOther ELSE run

\* Toolbar onToolChange={setActiveTool}
setActiveTool(tool) ==
    /\ activeTool' = tool
    /\ activeTool # tool
    /\ UNCHANGED <<gesture, zoomEvents, storeVars, noteVars>>
    /\ published' = <<>>
    /\ saveRequest' = <<>>
    /\ UNCHANGED <<appVars, strokeColor, strokeWidth, viewport, canvasVars,
                   collaboration, currentUser, subscribed, currentSession,
                   loadStatus, remoteDirty, run>>
    /\ lastEvent' = Event("tool", [kind |-> "tool"])

\* Toolbar onStrokeColorChange={setStrokeColor}
setStrokeColor(color) ==
    /\ strokeColor' = color
    /\ strokeColor # color
    /\ UNCHANGED <<gesture, zoomEvents, storeVars, noteVars>>
    /\ published' = <<>>
    /\ saveRequest' = <<>>
    /\ UNCHANGED <<appVars, activeTool, strokeWidth, viewport, canvasVars,
                   collaboration, currentUser, subscribed, currentSession,
                   loadStatus, remoteDirty, run>>
    /\ lastEvent' = Event("color", [kind |-> "color"])

\* Toolbar onStrokeWidthChange={setStrokeWidth}
setStrokeWidth(width) ==
    /\ strokeWidth' = width
    /\ strokeWidth # width
    /\ UNCHANGED <<gesture, zoomEvents, storeVars, noteVars>>
    /\ published' = <<>>
    /\ saveRequest' = <<>>
    /\ UNCHANGED <<appVars, activeTool, strokeColor, viewport, canvasVars,
                   collaboration, currentUser, subscribed, currentSession,
                   loadStatus, remoteDirty, run>>
    /\ lastEvent' = Event("width", [kind |-> "width"])

ZoomFloor == Frac(1, 10)
ZoomCeiling == Q(5)

\* Variant: the zoom-in button multiplies without the upper clamp.
handleZoomInBody_NoClamp ==
    viewport' = [viewport EXCEPT !.zoom = QMul(@, Frac(6, 5))]

\* Math.min(5, viewport.zoom * 1.2)
handleZoomInBody ==
    viewport' = [viewport EXCEPT
                    !.zoom = QMin(ZoomCeiling, QMul(@, Frac(6, 5)))]

\* Math.max(0.1, viewport.zoom * 0.8)
handleZoomOutBody ==
    viewport' = [viewport EXCEPT
                    !.zoom = QMax(ZoomFloor, QMul(@, Frac(4, 5)))]

ZoomButtonFrame(kind) ==
    /\ zoomEvents < MaxZoom
    /\ zoomEvents' = zoomEvents + 1
    /\ published' = <<>>
    /\ saveRequest' = <<>>
    /\ UNCHANGED <<appVars, toolVars, canvasVars, collaboration, currentUser,
                   subscribed, currentSession, loadStatus, remoteDirty, run,
                   gesture, storeVars, noteVars>>
    /\ lastEvent' = Event(kind, [viewportBefore |-> viewport])

handleZoomIn ==
    /\ handleZoomInBody
    /\ ZoomButtonFrame("zoomIn")

handleZoomOut ==
    /\ handleZoomOutBody
    /\ ZoomButtonFrame("zoomOut")

----------------------------------------------------------------------------
(* Canvas: pointer handlers *)

\* broadcastCursor / broadcastElementChange: what reaches publish
\* (Date.now() timestamps are left out of the outbound payload).
\* Variant: the cursor is published without a signed-in user.
broadcastCursor_NoUserCheck(point) ==
    <<[type |-> "cursor-move", userId |-> currentUser,
       data |-> [x |-> point.x, y |-> point.y]]>>

broadcastCursor(point) ==
    IF currentUser = NoUser
    THEN <<>>
    ELSE <<[type |-> "cursor-move", userId |-> currentUser,
            data |-> [x |-> point.x, y |-> point.y]]>>

broadcastElementChange(newElements) ==
    IF currentUser = NoUser
    THEN <<>>
    ELSE <<[type |-> "elements-update", userId |-> currentUser,
            data |-> [elements |-> newElements]]>>

\* Variant: a pan starts on an element as it does on empty canvas.
handleMouseDown_PanAlways(e) ==
    LET point == screenToCanvas(e.x, e.y)
        clicked == FindClicked(elements, point)
    IN  IF activeTool = "select"
        THEN /\ HistoryRoom
             /\ IF clicked # 0
                THEN /\ handleElementsChange(
                          [k \in 1..Len(elements) |->
                              WithSelected(elements[k],
                                  elements[k].id = elements[clicked].id)])
                     /\ isPanning' = TRUE
                     /\ lastPanPoint' = Pt(e.x, e.y)
                ELSE /\ isPanning' = TRUE
                     /\ lastPanPoint' = Pt(e.x, e.y)
                     /\ handleElementsChange(
                          [k \in 1..Len(elements) |->
                              WithSelected(elements[k], FALSE)])
             /\ published' = <<>>
             /\ UNCHANGED <<drawingState, nextId>>
             /\ lastEvent' =
                  Event("mouseDown",
                        [recorded |-> TRUE,
                         truncated |-> historyIndex < Len(history) - 1,
                         point |-> point])
             /\ remoteDirty' = FALSE
             /\ run' = RunAfterCommit
        ELSE /\ nextId <= MaxIds
             /\ drawingState' =
                  [isDrawing |-> TRUE, currentPath |-> <<point>>,
                   currentElement |->
                       createNewElement(activeTool, point, strokeColor,
                                        strokeWidth, LocalIds[nextId])]
             /\ nextId' = nextId + 1
             /\ published' = <<>>
             /\ saveRequest' = <<>>
             /\ UNCHANGED <<appVars, isPanning, lastPanPoint, remoteDirty,
                            run>>
             /\ lastEvent' = Event("mouseDown", [kind |-> "mouseDown"])

handleMouseDown(e) ==
    LET point == screenToCanvas(e.x, e.y)
        clicked == FindClicked(elements, point)
    IN  IF activeTool = "select"
        THEN /\ HistoryRoom
             /\ IF clicked # 0
                THEN /\ handleElementsChange(
                          [k \in 1..Len(elements) |->
                              WithSelected(elements[k],
                                  elements[k].id = elements[clicked].id)])
                     /\ UNCHANGED <<isPanning, lastPanPoint>>
                ELSE /\ isPanning' = TRUE
                     /\ lastPanPoint' = Pt(e.x, e.y)
                     /\ handleElementsChange(
                          [k \in 1..Len(elements) |->
                              WithSelected(elements[k], FALSE)])
             /\ published' = <<>>
             /\ UNCHANGED <<drawingState, nextId>>
             /\ lastEvent' =
                  Event("mouseDown",
                        [recorded |-> TRUE,
                         truncated |-> historyIndex < Len(history) - 1,
                         point |-> point])
             /\ remoteDirty' = FALSE
             /\ run' = RunAfterCommit
        ELSE /\ nextId <= MaxIds
             /\ drawingState' =
                  [isDrawing |-> TRUE, currentPath |-> <<point>>,
                   currentElement |->
                       createNewElement(activeTool, point, strokeColor,
                                        strokeWidth, LocalIds[nextId])]
             /\ nextId' = nextId + 1
             /\ published' = <<>>
             /\ saveRequest' = <<>>
             /\ UNCHANGED <<appVars, isPanning, lastPanPoint, remoteDirty,
                            run>>
             /\ lastEvent' = Event("mouseDown", [kind |-> "mouseDown"])

\* A drawing gesture starts with a pointer-down of a drawing tool in the
\* idle state; any other pointer-down ends the observation.
GestureAtMouseDown(e) ==
    IF activeTool # "select" /\ ~isPanning /\ ~drawingState.isDrawing
    THEN [tool |-> activeTool, origin |-> screenToCanvas(e.x, e.y),
          color |-> strokeColor, strokeWidth |-> strokeWidth, last |-> Null]
    ELSE Null

MouseDown(e) ==
    /\ handleMouseDown(e)
    /\ gesture' = GestureAtMouseDown(e)
    /\ UNCHANGED <<toolVars, viewport, collaboration, currentUser,
                   subscribed, currentSession, loadStatus, zoomEvents,
                   storeVars, noteVars>>

\* Variant: the pan delta is taken in world units, divided by the zoom.
handleMouseMove_ZoomScaled(e) ==
    LET point == screenToCanvas(e.x, e.y)
    IN  /\ published' = broadcastCursor(point)
        /\ IF isPanning
           THEN LET deltaX == QDiv(QSub(e.x, lastPanPoint.x), viewport.zoom)
                    deltaY == QDiv(QSub(e.y, lastPanPoint.y), viewport.zoom)
                IN  /\ viewport' = [viewport EXCEPT !.x = QAdd(@, deltaX),
                                                    !.y = QAdd(@, deltaY)]
                    /\ lastPanPoint' = Pt(e.x, e.y)
                    /\ UNCHANGED drawingState
           ELSE IF ~drawingState.isDrawing
                   \/ drawingState.currentElement = Null
                THEN UNCHANGED <<viewport, lastPanPoint, drawingState>>
                ELSE /\ drawingState' =
                          [drawingState EXCEPT
                              !.currentPath =
                                  IF activeTool = "pen"
                                  THEN Append(@, point) ELSE @,
                              !.currentElement =
                                  updateElementWithPoint(
                                      drawingState.currentElement, point,
                                      drawingState.currentPath)]
                     /\ UNCHANGED <<viewport, lastPanPoint>>

handleMouseMove(e) ==
    LET point == screenToCanvas(e.x, e.y)
    IN  /\ published' = broadcastCursor(point)
        /\ IF isPanning
           THEN LET deltaX == QSub(e.x, lastPanPoint.x)
                    deltaY == QSub(e.y, lastPanPoint.y)
                IN  /\ viewport' = [viewport EXCEPT !.x = QAdd(@, deltaX),
                                                    !.y = QAdd(@, deltaY)]
                    /\ lastPanPoint' = Pt(e.x, e.y)
                    /\ UNCHANGED drawingState
           ELSE IF ~drawingState.isDrawing
                   \/ drawingState.currentElement = Null
                THEN UNCHANGED <<viewport, lastPanPoint, drawingState>>
                ELSE /\ drawingState' =
                          [drawingState EXCEPT
                              !.currentPath =
                                  IF activeTool = "pen"
                                  THEN Append(@, point) ELSE @,
                              !.currentElement =
                                  updateElementWithPoint(
                                      drawingState.currentElement, point,
                                      drawingState.currentPath)]
                     /\ UNCHANGED <<viewport, lastPanPoint>>

\* Pans are explored up to MaxPan units from the origin, the path of a
\* drawing gesture up to MaxPath points.
MouseMoveInBounds(e) ==
    IF isPanning
    THEN /\ QLe(Q(-MaxPan), QAdd(viewport.x, QSub(e.x, lastPanPoint.x)))
         /\ QLe(QAdd(viewport.x, QSub(e.x, lastPanPoint.x)), Q(MaxPan))
         /\ QLe(Q(-MaxPan), QAdd(viewport.y, QSub(e.y, lastPanPoint.y)))
         /\ QLe(QAdd(viewport.y, QSub(e.y, lastPanPoint.y)), Q(MaxPan))
    ELSE (drawingState.isDrawing /\ drawingState.currentElement # Null)
            => Len(drawingState.currentPath) < MaxPath

MouseMove(e) ==
    /\ MouseMoveInBounds(e)
    /\ handleMouseMove(e)
    /\ saveRequest' = <<>>
    /\ gesture' = IF gesture # Null /\ ~isPanning
                  THEN [gesture EXCEPT !.last = screenToCanvas(e.x, e.y)]
                  ELSE gesture
    /\ lastEvent' = Event("mouseMove", [point |-> screenToCanvas(e.x, e.y),
                                        screen |-> Pt(e.x, e.y)])
    /\ UNCHANGED <<appVars, toolVars, isPanning, nextId, collaboration,
                   currentUser, subscribed, currentSession, loadStatus,
                   remoteDirty, run, zoomEvents, storeVars, noteVars>>

\* Variant: the element is committed on top of the current snapshot, not of
\* the collection on screen.
handleMouseUp_FromSnapshot ==
    IF isPanning
    THEN /\ isPanning' = FALSE
         /\ published' = <<>>
         /\ saveRequest' = <<>>
         /\ UNCHANGED <<appVars, drawingState>>
    ELSE /\ IF drawingState.isDrawing /\ drawingState.currentElement # Null
            THEN LET newElements ==
                         Append(history[historyIndex + 1],
                                drawingState.currentElement)
                 IN  /\ handleElementsChange(newElements)
                     /\ published' = broadcastElementChange(newElements)
            ELSE /\ published' = <<>>
                 /\ saveRequest' = <<>>
                 /\ UNCHANGED appVars
         /\ drawingState' = [isDrawing |-> FALSE, currentPath |-> <<>>,
                             currentElement |-> Null]
         /\ UNCHANGED isPanning

\* Variant: the committed element is put in front of the collection.
handleMouseUp_Prepend ==
    IF isPanning
    THEN /\ isPanning' = FALSE
         /\ published' = <<>>
         /\ saveRequest' = <<>>
         /\ UNCHANGED <<appVars, drawingState>>
    ELSE /\ IF drawingState.isDrawing /\ drawingState.currentElement # Null
            THEN LET newElements ==
                         <<drawingState.currentElement>> \o elements
                 IN  /\ handleElementsChange(newElements)
                     /\ published' = broadcastElementChange(newElements)
            ELSE /\ published' = <<>>
                 /\ saveRequest' = <<>>
                 /\ UNCHANGED appVars
         /\ drawingState' = [isDrawing |-> FALSE, currentPath |-> <<>>,
                             currentElement |-> Null]
         /\ UNCHANGED isPanning

handleMouseUp ==
    IF isPanning
    THEN /\ isPanning' = FALSE
         /\ published' = <<>>
         /\ saveRequest' = <<>>
         /\ UNCHANGED <<appVars, drawingState>>
    ELSE /\ IF drawingState.isDrawing /\ drawingState.currentElement # Null
            THEN LET newElements ==
                         Append(elements, drawingState.currentElement)
                 IN  /\ handleElementsChange(newElements)
                     /\ published' = broadcastElementChange(newElements)
            ELSE /\ published' = <<>>
                 /\ saveRequest' = <<>>
                 /\ UNCHANGED appVars
         /\ drawingState' = [isDrawing |-> FALSE, currentPath |-> <<>>,
                             currentElement |-> Null]
         /\ UNCHANGED isPanning

\* Variant: the offset is rescaled by the wheel factor, not by the ratio of
\* the clamped zoom to the old one.
handleWheelBody_FactorOffset(e) ==
    LET zoomFactor == IF e.deltaY > 0 THEN Frac(9, 10) ELSE Frac(11, 10)
        newZoom == QMax(ZoomFloor,
                        QMin(ZoomCeiling, QMul(viewport.zoom, zoomFactor)))
        mouseX == QSub(e.x, RectLeft)
        mouseY == QSub(e.y, RectTop)
    IN  viewport' =
          [x |-> QSub(viewport.x,
                      QMul(QSub(mouseX, viewport.x),
                           QSub(zoomFactor, Q(1)))),
           y |-> QSub(viewport.y,
                      QMul(QSub(mouseY, viewport.y),
                           QSub(zoomFactor, Q(1)))),
           zoom |-> newZoom]

handleWheelBody(e) ==
    LET zoomFactor == IF e.deltaY > 0 THEN Frac(9, 10) ELSE Frac(11, 10)
        newZoom == QMax(ZoomFloor,
                        QMin(ZoomCeiling, QMul(viewport.zoom, zoomFactor)))
        mouseX == QSub(e.x, RectLeft)
        mouseY == QSub(e.y, RectTop)
    IN  viewport' =
          [x |-> QSub(viewport.x,
                      QMul(QSub(mouseX, viewport.x),
                           QSub(QDiv(newZoom, viewport.zoom), Q(1)))),
           y |-> QSub(viewport.y,
                      QMul(QSub(mouseY, viewport.y),
                           QSub(QDiv(newZoom, viewport.zoom), Q(1)))),
           zoom |-> newZoom]

handleWheel(e) ==
    /\ zoomEvents < MaxZoom
    /\ zoomEvents' = zoomEvents + 1
    /\ handleWheelBody(e)
    /\ published' = <<>>
    /\ saveRequest' = <<>>
    /\ UNCHANGED <<appVars, toolVars, canvasVars, collaboration, currentUser,
                   subscribed, currentSession, loadStatus, remoteDirty, run,
                   gesture, storeVars, noteVars>>
    /\ lastEvent' = Event("wheel",
                          [point |-> Pt(QSub(e.x, RectLeft),
                                        QSub(e.y, RectTop)),
                           viewportBefore |-> viewport])

\* The promise of the publish call a handler started settles.  Neither
\* broadcast function awaits anything else or touches state afterwards: a
\* rejection is caught and logged.  The completion therefore commutes with
\* every handler and is explored as the step after the call; a call that
\* never completes is a call this step never follows.
PublishOutcomes == {"resolved", "rejected"}

\* Variant: a rejected publish is sent again.
publishSettledBody_Retry(outcome) ==
    published' = IF outcome = "rejected" THEN published ELSE <<>>

publishSettledBody(outcome) ==
    published' = <<>>

publishSettled(outcome) ==
    /\ published # <<>>
    /\ publishSettledBody(outcome)
    /\ UNCHANGED <<appVars, toolVars, viewport, canvasVars, collaboration,
                   currentUser, subscribed, currentSession, loadStatus,
                   saveRequest, storeVars, noteVars, remoteDirty, run,
                   gesture, zoomEvents>>
    /\ lastEvent' = Event("publishSettled",
                          [outcome |-> outcome, msg |-> published[1]])

Commits == ~isPanning /\ drawingState.isDrawing
           /\ drawingState.currentElement # Null

MouseUp ==
    /\ Commits => HistoryRoom
    /\ handleMouseUp
    /\ UNCHANGED <<toolVars, viewport, lastPanPoint, nextId, collaboration,
                   currentUser, subscribed, currentSession, loadStatus,
                   zoomEvents, storeVars, noteVars>>
    /\ gesture' = Null
    /\ lastEvent' = IF Commits
                    THEN Event("mouseUp",
                               [recorded |-> TRUE,
                                truncated |-> historyIndex < Len(history) - 1,
                                gesture |-> gesture,
                                afterRemote |->
                                    /\ lastEvent.kind = "message"
                                    /\ lastEvent.msg.type = "elements-update"
                                    /\ lastEvent.msg.userId # Me])
                    ELSE Event("mouseUp", [gesture |-> Null])
    /\ remoteDirty' = IF Commits THEN FALSE ELSE remoteDirty
    /\ run' = IF Commits THEN RunAfterCommit ELSE run

----------------------------------------------------------------------------
(* useCollaboration *)

\* onAuthStateChanged with a signed-in user: setCurrentUser, then subscribe.
onAuthStateChanged ==
    /\ currentUser = NoUser
    /\ currentUser' = Me
    /\ UNCHANGED <<gesture, zoomEvents, storeVars, noteVars>>
    /\ published' = <<>>
    /\ saveRequest' = <<>>
    /\ UNCHANGED <<appVars, toolVars, viewport, canvasVars, collaboration,
                   subscribed, currentSession, loadStatus, remoteDirty, run>>
    /\ lastEvent' = Event("auth", [kind |-> "auth"])

\* await channel.subscribe(...) returned: the two listeners are registered.
channelSubscribed ==
    /\ currentUser # NoUser
    /\ ~subscribed
    /\ subscribed' = TRUE
    /\ UNCHANGED <<gesture, zoomEvents, storeVars, noteVars>>
    /\ published' = <<>>
    /\ saveRequest' = <<>>
    /\ UNCHANGED <<appVars, toolVars, viewport, canvasVars, collaboration,
                   currentUser, currentSession, loadStatus, remoteDirty, run>>
    /\ lastEvent' = Event("subscribed", [kind |-> "subscribed"])

\* u.metadata?.displayName || 'Anonymous'
DisplayNameOf(metadata) ==
    IF metadata # Null /\ "displayName" \in DOMAIN metadata
    THEN metadata.displayName ELSE "Anonymous"

ColorOf(metadata) ==
    IF metadata # Null /\ "color" \in DOMAIN metadata
    THEN metadata.color ELSE "#666"

EmailOf(metadata) ==
    IF metadata # Null /\ "email" \in DOMAIN metadata
    THEN metadata.email ELSE ""

\* Variant: the cursors of users missing from the member list are dropped.
channelOnPresenceBody_DropCursors(users) ==
    collaboration' =
        [collaboration EXCEPT
            !.users = [k \in 1..Len(users) |->
                          [id |-> users[k],
                           email |-> EmailOf(Metadata(users[k])),
                           displayName |->
                               DisplayNameOf(Metadata(users[k]))]],
            !.cursors = SelectSeq(@, LAMBDA c :
                            \E k \in 1..Len(users) : users[k] = c.userId),
            !.isConnected = TRUE]

channelOnPresenceBody(users) ==
    collaboration' =
        [collaboration EXCEPT
            !.users = [k \in 1..Len(users) |->
                          [id |-> users[k],
                           email |-> EmailOf(Metadata(users[k])),
                           displayName |->
                               DisplayNameOf(Metadata(users[k]))]],
            !.isConnected = TRUE]

channelOnPresence(users) ==
    /\ subscribed
    /\ channelOnPresenceBody(users)
    /\ UNCHANGED <<gesture, zoomEvents, storeVars, noteVars>>
    /\ published' = <<>>
    /\ saveRequest' = <<>>
    /\ UNCHANGED <<appVars, toolVars, viewport, canvasVars, currentUser,
                   subscribed, currentSession, loadStatus, remoteDirty, run>>
    /\ lastEvent' = Event("presence",
                          [users |-> users,
                           usersBefore |-> collaboration.users])

\* Variant: the new entry is appended without removing the sender's old one.
UpsertCursor_Append(cursors, message) ==
    Append(cursors,
           [userId |-> message.userId, x |-> message.data.x,
            y |-> message.data.y,
            displayName |-> DisplayNameOf(message.metadata),
            color |-> ColorOf(message.metadata)])

\* [...prev.cursors.filter(c => c.userId !== message.userId), {...}]
UpsertCursor(cursors, message) ==
    Append(SelectSeq(cursors, LAMBDA c : c.userId # message.userId),
           [userId |-> message.userId, x |-> message.data.x,
            y |-> message.data.y,
            displayName |-> DisplayNameOf(message.metadata),
            color |-> ColorOf(message.metadata)])

\* Variant: an elements-update older than the one applied just before is
\* dropped (timestamp ordering).
channelOnMessageBody_NewestWins(message) ==
    IF message.type = "cursor-move" /\ message.userId # currentUser
    THEN /\ collaboration' =
              [collaboration EXCEPT !.cursors = UpsertCursor(@, message)]
         /\ UNCHANGED appVars
    ELSE IF /\ message.type = "elements-update"
            /\ message.userId # currentUser
            /\ ~(/\ lastEvent.msg.type = "elements-update"
                 /\ lastEvent.msg.data.timestamp > message.data.timestamp)
         THEN /\ handleCollaborativeElementsUpdate(message.data.elements)
              /\ UNCHANGED collaboration
         ELSE UNCHANGED <<appVars, collaboration>>

\* Variant: no echo suppression.
channelOnMessageBody_NoEchoCheck(message) ==
    IF message.type = "cursor-move"
    THEN /\ collaboration' =
              [collaboration EXCEPT !.cursors = UpsertCursor(@, message)]
         /\ UNCHANGED appVars
    ELSE IF message.type = "elements-update"
         THEN /\ handleCollaborativeElementsUpdate(message.data.elements)
              /\ UNCHANGED collaboration
         ELSE UNCHANGED <<appVars, collaboration>>

\* user.id is the id captured when the listener was registered.
channelOnMessageBody(message) ==
    IF message.type = "cursor-move" /\ message.userId # currentUser
    THEN /\ collaboration' =
              [collaboration EXCEPT !.cursors = UpsertCursor(@, message)]
         /\ UNCHANGED appVars
    ELSE IF message.type = "elements-update" /\ message.userId # currentUser
         THEN /\ handleCollaborativeElementsUpdate(message.data.elements)
              /\ UNCHANGED collaboration
         ELSE UNCHANGED <<appVars, collaboration>>

channelOnMessage(message) ==
    /\ subscribed
    /\ channelOnMessageBody(message)
    /\ UNCHANGED <<gesture, zoomEvents, storeVars, noteVars>>
    /\ published' = <<>>
    /\ saveRequest' = <<>>
    /\ UNCHANGED <<toolVars, viewport, canvasVars, currentUser, subscribed,
                   currentSession, loadStatus, run>>
    /\ lastEvent' = Event("message", [msg |-> message,
                                      dirty |-> remoteDirty,
                                      prev |-> lastEvent.msg])
    /\ remoteDirty' = IF message.type = "elements-update"
                         /\ message.userId # currentUser
                      THEN TRUE ELSE remoteDirty

----------------------------------------------------------------------------
(* useWhiteboardPersistence and the load effect of App *)

\* createSession resolved: setCurrentSession; the re-render runs the load
\* effect, which calls loadElements(currentSession.id).
createSession ==
    /\ currentSession = NoSession
    /\ currentSession' = SessionId
    /\ loadStatus' = "pending"
    /\ persistError' = Null
    /\ UNCHANGED <<gesture, zoomEvents, store, toasts, saves, noteVars>>
    /\ published' = <<>>
    /\ saveRequest' = <<>>
    /\ UNCHANGED <<appVars, toolVars, viewport, canvasVars, collaboration,
                   currentUser, subscribed, remoteDirty, run>>
    /\ lastEvent' = Event("session", [kind |-> "session"])

loadEffectThen(loadedElements) ==
    IF Len(loadedElements) > 0
    THEN /\ elements' = loadedElements
         /\ history' = <<(<<>>), loadedElements>>
         /\ historyIndex' = 1
    ELSE UNCHANGED appVars

loadEffect(loadedElements) ==
    /\ loadStatus = "pending"
    /\ loadStatus' = "done"
    /\ loadEffectThen(loadedElements)
    /\ UNCHANGED <<gesture, zoomEvents, storeVars, noteVars>>
    /\ published' = <<>>
    /\ saveRequest' = <<>>
    /\ UNCHANGED <<toolVars, viewport, canvasVars, collaboration,
                   currentUser, subscribed, currentSession>>
    /\ lastEvent' = Event("load", [effective |-> Len(loadedElements) > 0])
    /\ remoteDirty' = IF Len(loadedElements) > 0 THEN FALSE ELSE remoteDirty
    /\ run' = IF Len(loadedElements) > 0
              THEN RunOther ELSE run

\* loadElements failed: its catch sets the error and returns [], so the
\* promise resolves and the effect's then-branch runs with an empty list.
LoadFailedMessage == "Failed to load whiteboard"

loadElementsFailed ==
    /\ loadStatus = "pending"
    /\ loadStatus' = "done"
    /\ persistError' = LoadFailedMessage
    /\ loadEffectThen(<<>>)
    /\ published' = <<>>
    /\ saveRequest' = <<>>
    /\ UNCHANGED <<toolVars, viewport, canvasVars, collaboration,
                   currentUser, subscribed, currentSession, store, toasts,
                   saves, noteVars, remoteDirty, run, gesture, zoomEvents>>
    /\ lastEvent' = Event("loadFailed", [kind |-> "loadFailed"])

\* The record createMany writes for an element: the id is prefixed with the
\* session id and elementData is JSON.stringify(element), which keeps every
\* property of the element that has a value.
StoredRecord(element) ==
    [id |-> <<currentSession, element.id>>, sessionId |-> currentSession,
     elementData |-> element, userId |-> Me]

StoredRecords(els) == [k \in 1..Len(els) |-> StoredRecord(els[k])]

\* How a saveElements call ends: all of it ran, or one of its awaits threw:
\* auth.me or the list, a delete, createMany, or the session update.
SaveOutcomes == {"ok", "failList", "failDelete", "failCreate", "failUpdate"}
SaveFailedMessage == "Failed to save whiteboard"

\* What the call has done to the store when it ends.  A failing delete is
\* the k-th of the loop: the k - 1 records before it are gone.
StoreAfterSave(outcome, els) ==
    CASE outcome = "failList"   -> {store}
      [] outcome = "failDelete" ->
           {SubSeq(store, k, Len(store)) : k \in 1..Len(store)}
      [] outcome = "failCreate" -> {<<>>}
      [] OTHER -> {StoredRecords(els)}

\* The stages a call with this collection and this store passes through.
SaveOutcomePossible(outcome, els) ==
    /\ outcome = "failDelete" => store # <<>>
    /\ outcome = "failCreate" => els # <<>>

\* Variant: a failed save takes the display back to the snapshot before.
saveElementsSettledBody_Rollback(outcome, els) ==
    /\ store' \in StoreAfterSave(outcome, els)
    /\ persistError' = IF outcome = "ok" THEN persistError
                       ELSE SaveFailedMessage
    /\ IF outcome # "ok" /\ historyIndex > 0
       THEN /\ elements' = history[(historyIndex - 1) + 1]
            /\ historyIndex' = historyIndex - 1
            /\ UNCHANGED history
       ELSE UNCHANGED appVars

saveElementsSettledBody(outcome, els) ==
    /\ store' \in StoreAfterSave(outcome, els)
    /\ persistError' = IF outcome = "ok" THEN persistError
                       ELSE SaveFailedMessage
    /\ UNCHANGED appVars

\* The saveElements call a handler started ends.  The call reads nothing of
\* App or Canvas after it was started and writes only the store and the
\* hook's error, so its end commutes with every handler and is explored as
\* the step after the call.
saveElementsSettled(outcome) ==
    /\ saveRequest # <<>>
    /\ SaveOutcomePossible(outcome, saveRequest[1])
    /\ saveElementsSettledBody(outcome, saveRequest[1])
    /\ saveRequest' = <<>>
    /\ UNCHANGED <<toolVars, viewport, canvasVars, collaboration,
                   currentUser, subscribed, published, currentSession,
                   loadStatus, toasts, saves, noteVars, remoteDirty, run,
                   gesture, zoomEvents>>
    /\ lastEvent' = Event("saveSettled",
                          [outcome |-> outcome,
                           saved |-> saveRequest[1],
                           storeBefore |-> store])

\* The list request of loadElements is served with the session's records
\* as they are now, each parsed back from its elementData, and the load
\* effect's then-branch runs with the result.
loadElementsServed ==
    loadEffect([k \in 1..Len(store) |-> store[k].elementData])

\* The initial load against the store this client's own saves fill: pen
\* strokes and undos before and after the load, every save ending well.
NextLoad ==
    \/ createSession
    \/ loadElementsServed
    \/ \E e \in ScreenPoints : nextId <= MaxIds /\ MouseDown(e)
    \/ MouseUp
    \/ handleUndo
    \/ saveElementsSettled("ok")

SpecLoad == Init /\ [][NextLoad]_vars

\* saveElements step by step.  A call awaits auth.me, the list of the
\* session's records, one delete per listed record and createMany; the
\* store changes when each request is served, and other handlers and other
\* calls run between the awaits.  The session update that ends the call
\* touches no element record and is part of the last step.
saveElementsCalled ==
    /\ saveRequest # <<>>
    /\ saves' = Append(saves, [elements |-> saveRequest[1], pc |-> "list",
                               existing |-> <<>>])
    /\ saveRequest' = <<>>
    /\ published' = <<>>
    /\ UNCHANGED <<appVars, toolVars, viewport, canvasVars, collaboration,
                   currentUser, subscribed, currentSession, loadStatus,
                   store, persistError, toasts, noteVars, remoteDirty, run,
                   gesture, zoomEvents>>
    /\ lastEvent' = Event("saveCalled", [kind |-> "saveCalled"])

\* What a step of a call leaves alone.
saveStepFrame ==
    /\ published' = <<>>
    /\ saveRequest' = <<>>
    /\ UNCHANGED <<appVars, toolVars, viewport, canvasVars, collaboration,
                   currentUser, subscribed, currentSession, loadStatus,
                   toasts, noteVars, remoteDirty, run, gesture, zoomEvents>>
    /\ lastEvent' = Event("saveStep", [kind |-> "saveStep"])

\* whiteboardElements.list({ where: { sessionId } }) is served.
saveElementsLists(i) ==
    /\ saves[i].pc = "list"
    /\ saves' = [saves EXCEPT
                    ![i].pc = "delete",
                    ![i].existing =
                        LET mine == SelectSeq(store,
                                       LAMBDA r : r.sessionId = currentSession)
                        IN  [k \in 1..Len(mine) |-> mine[k].id]]
    /\ UNCHANGED <<store, persistError>>
    /\ saveStepFrame

\* whiteboardElements.delete(element.id) of the loop is served.
saveElementsDeletes(i) ==
    /\ saves[i].pc = "delete"
    /\ saves[i].existing # <<>>
    /\ store' = SelectSeq(store, LAMBDA r : r.id # Head(saves[i].existing))
    /\ saves' = [saves EXCEPT ![i].existing = Tail(@)]
    /\ UNCHANGED persistError
    /\ saveStepFrame

\* What createMany does when a record with one of the ids is already
\* there is decided by the service, which is not part of the sources: it
\* rejects the call, writes a second record, or overwrites.
ClashOutcomes == {"reject", "duplicate", "replace"}

RemoveAt(seq, i) == SubSeq(seq, 1, i - 1) \o SubSeq(seq, i + 1, Len(seq))

\* The loop is over: createMany (skipped for an empty collection) is
\* served and the call ends; a rejection is caught and sets the error.
saveElementsCreates(i, clash) ==
    LET new == [k \in 1..Len(saves[i].elements) |->
                   StoredRecord(saves[i].elements[k])]
        clashes == \E k \in 1..Len(store), j \in 1..Len(new) :
                      store[k].id = new[j].id
    IN  /\ saves[i].pc = "delete"
        /\ saves[i].existing = <<>>
        /\ store' =
              IF ~clashes \/ clash = "duplicate"
              THEN store \o new
              ELSE IF clash = "reject"
                   THEN store
                   ELSE SelectSeq(store,
                                  LAMBDA r : \A j \in 1..Len(new) :
                                                r.id # new[j].id) \o new
        /\ persistError' = IF clashes /\ clash = "reject"
                           THEN SaveFailedMessage ELSE persistError
        /\ saves' = RemoveAt(saves, i)
        /\ saveStepFrame

\* The board is loaded and the call of the last handler has been started.
SaveReady == loadStatus = "done" /\ saveRequest = <<>>

\* Pen strokes and undos of a loaded, empty board, with the saveElements
\* calls they start running step by step, at most MaxSaves at a time.
NextSave ==
    \/ createSession
    \/ loadEffect(<<>>)
    \/ \E e \in ScreenPoints : SaveReady /\ nextId <= MaxIds /\ MouseDown(e)
    \/ SaveReady /\ Len(saves) < MaxSaves /\ MouseUp
    \/ SaveReady /\ handleUndo
    \/ saveElementsCalled
    \/ \E i \in 1..Len(saves) : SaveReady /\ saveElementsLists(i)
    \/ \E i \in 1..Len(saves) : SaveReady /\ saveElementsDeletes(i)
    \/ \E i \in 1..Len(saves), clash \in ClashOutcomes :
          SaveReady /\ saveElementsCreates(i, clash)

SpecSave == Init /\ [][NextSave]_vars

----------------------------------------------------------------------------
(* RichNoteCard *)

\* Everything outside the card.
boardVars == <<appVars, toolVars, viewport, canvasVars, collaboration,
               currentUser, subscribed, published, currentSession,
               loadStatus, saveRequest, storeVars, remoteDirty, run, gesture,
               zoomEvents>>

\* The note the card is mounted with: another user's content and comment.
\* lastEditedAt and the comments' timestamps are Date.now() values and are
\* left out.
InitialNote ==
    [id |-> "n1", content |-> "<p>a</p>",
     comments |-> <<[id |-> "c0", text |-> "ok", author |-> "u2",
                     authorId |-> "u2", resolved |-> FALSE]>>,
     lastEditedBy |-> "u2"]

\* What the user types: innerHTML values of the editor and comment texts
\* (none with surrounding blanks, so trim() changes none of them).
NoteContents == {"<p>a</p>", "<p>ab</p>", "<p>abc</p>"}
CommentTexts == {"", "ok"}
CommentIds   == <<"c1", "c2", "c3", "c4">>

\* Math.random() ids: one the thread does not hold.
NewCommentId(comments) ==
    CommentIds[CHOOSE i \in 1..Len(CommentIds) :
                  /\ \A k \in 1..Len(comments) :
                         comments[k].id # CommentIds[i]
                  /\ \A j \in 1..(i - 1) :
                         \E k \in 1..Len(comments) :
                            comments[k].id = CommentIds[j]]

\* currentUser?.displayName || 'Anonymous' (a user's display name is
\* modelled by the user id, as in Metadata).
EditorName(user) == IF user = NoUser THEN "Anonymous" ELSE user

\* The callback of a render closes over that render's content, note and
\* user.
Closure(c, note, user) == [content |-> c, richNote |-> note, user |-> user]

\* Variant: the effect has no cleanup, earlier timeouts stay pending.
autoSaveEffect_NoCleanup(c, note, user) ==
    Append(timeouts, Closure(c, note, user))

\* The auto-save effect after a render in which content, richNote or
\* currentUser changed: the cleanup of the run before clears its timeout,
\* then a new one is set.
autoSaveEffect(c, note, user) ==
    <<Closure(c, note, user)>>

\* if (content !== richNote.content) onUpdate({...})
timeoutCallback(c) ==
    IF c.content # c.richNote.content
    THEN <<[c.richNote EXCEPT !.content = c.content,
                              !.lastEditedBy = EditorName(c.user)]>>
    ELSE <<>>

\* A second has passed since the timeout was set.
timeoutFires ==
    /\ richNote # Null
    /\ timeouts # <<>>
    /\ updates' = timeoutCallback(timeouts[1])
    /\ timeouts' = Tail(timeouts)
    /\ UNCHANGED <<richNote, content, cardUser, boardVars>>
    /\ lastEvent' = Event("timeout",
                          [burst |-> IF lastEvent.kind = "contentChange"
                                     THEN lastEvent.burst ELSE 0,
                           fired |-> timeouts[1]])

\* onInput: setContent(innerHTML); a value equal to the state re-renders
\* nothing.  burst counts the edits that followed one another with no
\* timeout between them, up to 2.
handleContentChange(html) ==
    /\ richNote # Null
    /\ html # content
    /\ content' = html
    /\ timeouts' = autoSaveEffect(html, richNote, cardUser)
    /\ updates' = <<>>
    /\ UNCHANGED <<richNote, cardUser, boardVars>>
    /\ lastEvent' = Event("contentChange",
                          [burst |-> IF lastEvent.kind = "contentChange"
                                     THEN 2 ELSE 1])

handleAddComment(text) ==
    /\ richNote # Null
    /\ Len(richNote.comments) < MaxComments
    /\ updates' =
          IF text = "" \/ cardUser = NoUser
          THEN <<>>
          ELSE <<[richNote EXCEPT
                     !.comments =
                        Append(@, [id |-> NewCommentId(richNote.comments),
                                   text |-> text, author |-> cardUser,
                                   authorId |-> cardUser,
                                   resolved |-> FALSE])]>>
    /\ UNCHANGED <<richNote, content, timeouts, cardUser, boardVars>>
    /\ lastEvent' = Event("addComment", [text |-> text])

CommentOf(commentId) ==
    richNote.comments[CHOOSE k \in 1..Len(richNote.comments) :
                         richNote.comments[k].id = commentId]

HasComment(commentId) ==
    /\ richNote # Null
    /\ \E k \in 1..Len(richNote.comments) :
          richNote.comments[k].id = commentId

\* The Resolve / Unresolve control is rendered for every comment.
handleToggleComment(commentId) ==
    /\ HasComment(commentId)
    /\ updates' =
          <<[richNote EXCEPT
                !.comments =
                   [k \in 1..Len(@) |->
                       IF @[k].id = commentId
                       THEN [@[k] EXCEPT !.resolved = ~@]
                       ELSE @[k]]]>>
    /\ UNCHANGED <<richNote, content, timeouts, cardUser, boardVars>>
    /\ lastEvent' = Event("toggle", [comment |-> CommentOf(commentId)])

handleDeleteComment(commentId) ==
    updates' =
       <<[richNote EXCEPT
             !.comments = SelectSeq(@, LAMBDA c : c.id # commentId)]>>

\* Variant: the Delete control is rendered for every comment.
DeleteControlRendered_Always(comment) == TRUE

\* {currentUser?.id === comment.authorId && (<Button ...>Delete</Button>)}
DeleteControlRendered(comment) == cardUser = comment.authorId

\* The user goes for the Delete entry of a comment's menu: the handler runs
\* when the control is there, nothing happens when it is not.
deleteAttempt(commentId) ==
    /\ HasComment(commentId)
    /\ IF DeleteControlRendered(CommentOf(commentId))
       THEN handleDeleteComment(commentId)
       ELSE updates' = <<>>
    /\ UNCHANGED <<richNote, content, timeouts, cardUser, boardVars>>
    /\ lastEvent' = Event("deleteAttempt",
                          [comment |-> CommentOf(commentId)])

\* The owner of the card keeps the note onUpdate handed it and passes it
\* back as the richNote prop; the new prop runs the auto-save effect again.
ownerStores ==
    /\ updates # <<>>
    /\ richNote' = updates[1]
    /\ timeouts' = autoSaveEffect(content, updates[1], cardUser)
    /\ updates' = <<>>
    /\ UNCHANGED <<content, cardUser, boardVars>>
    /\ lastEvent' = Event("ownerStores", [kind |-> "ownerStores"])

\* onAuthStateChanged of the card's own useCollaboration(): a user signs in
\* or out; the new currentUser runs the auto-save effect again.
cardAuthStateChanged(user) ==
    /\ richNote # Null
    /\ user # cardUser
    /\ cardUser' = user
    /\ timeouts' = autoSaveEffect(content, richNote, user)
    /\ updates' = <<>>
    /\ UNCHANGED <<richNote, content, boardVars>>
    /\ lastEvent' = Event("cardAuth", [kind |-> "cardAuth"])

\* The card mounted with InitialNote: the first run of the effect has set a
\* timeout.
InitNote ==
    /\ InitApp("pen", InitialViewport, Event("init", [kind |-> "init"]))
    /\ richNote = InitialNote
    /\ content = InitialNote.content
    /\ timeouts = <<Closure(InitialNote.content, InitialNote, NoUser)>>
    /\ updates = <<>>
    /\ cardUser = NoUser

NextNote ==
    \/ \E html \in NoteContents : handleContentChange(html)
    \/ timeoutFires
    \/ \E text \in CommentTexts : handleAddComment(text)
    \/ \E id \in {"c0"} \cup {CommentIds[i] : i \in 1..Len(CommentIds)} :
          handleToggleComment(id)
    \/ \E id \in {"c0"} \cup {CommentIds[i] : i \in 1..Len(CommentIds)} :
          deleteAttempt(id)
    \/ ownerStores
    \/ \E user \in {Me, NoUser} : cardAuthStateChanged(user)

SpecNote == InitNote /\ [][NextNote]_vars

----------------------------------------------------------------------------
\* The select tool draws nothing; the drawing tools start at most
\* MaxGestures gestures.
DrawingsLeft == activeTool = "select" \/ nextId <= MaxGestures

Next ==
    \/ \E e \in ScreenPoints : DrawingsLeft /\ MouseDown(e)
    \/ MouseUp
    \/ handleUndo
    \/ handleRedo
    \/ \E tool \in ToolsUsed : setActiveTool(tool)
    \/ onAuthStateChanged
    \/ channelSubscribed
    \/ \E message \in HistoryMessages : channelOnMessage(message)
    \/ createSession
    \/ \E loadedElements \in LoadResults : loadEffect(loadedElements)

Spec == Init /\ [][Next]_vars

\* The reconciler with a single local gesture: every inbound message kind,
\* presence, and a pen stroke to give the local side something to lose.
CollabMessages ==
    {m \in InboundMessages :
        \/ (m.type = "cursor-move" /\ m.userId = "u2")
        \/ (m.type = "cursor-move" /\ m.userId \in {"u3", Me}
            /\ m.data.timestamp = 1 /\ m.data.x = Q(1))
        \/ (m.type = "elements-update" /\ m.data.timestamp = 1
            /\ m.userId \in {"u2", Me} /\ m.data.elements = <<R1>>)}

NextCollab ==
    \/ \E e \in ScreenPoints : DrawingsLeft /\ MouseDown(e)
    \/ MouseUp
    \/ handleUndo
    \/ onAuthStateChanged
    \/ channelSubscribed
    \/ \E users \in PresenceLists : channelOnPresence(users)
    \/ \E message \in CollabMessages : channelOnMessage(message)

SpecCollab == Init /\ [][NextCollab]_vars

\* The geometry of drawing gestures: pointer moves between two positions,
\* tool, colour and width changes at any moment.  The shape tools are the
\* subject, so the exploration starts with one of them chosen.
InitGesture ==
    InitState("rectangle", InitialViewport, Event("init", [kind |-> "init"]))

NextGesture ==
    \/ \E e \in GesturePoints : DrawingsLeft /\ MouseDown(e)
    \/ \E e \in GesturePoints : MouseMove(e)
    \/ MouseUp
    \/ \E tool \in GestureTools : setActiveTool(tool)
    \/ \E color \in StrokeColors : setStrokeColor(color)
    \/ \E width \in StrokeWidths : setStrokeWidth(width)

SpecGesture == InitGesture /\ [][NextGesture]_vars

\* Boxes dragged in any direction, then pointer-downs of the select tool on
\* their corners and in their middle.
BoxPoints == GesturePoints \cup {QPt(60, 35)}
BoxTools  == {"select", "rectangle", "circle"}

NextBox ==
    \/ \E e \in BoxPoints : DrawingsLeft /\ MouseDown(e)
    \/ \E e \in GesturePoints : MouseMove(e)
    \/ MouseUp
    \/ \E tool \in BoxTools : setActiveTool(tool)

SpecBox == InitGesture /\ [][NextBox]_vars

\* Pen strokes with tool changes while the stroke is drawn.
PathTools == {"pen", "rectangle"}

NextPath ==
    \/ \E e \in GesturePoints : DrawingsLeft /\ MouseDown(e)
    \/ \E e \in GesturePoints : MouseMove(e)
    \/ MouseUp
    \/ \E tool \in PathTools : setActiveTool(tool)

SpecPath == Init /\ [][NextPath]_vars

\* Selection: clicks with the select tool on rectangles drawn locally over a
\* rectangle received from another user.
SelectMessages ==
    {m \in ElementsUpdateMessages :
        m.userId = "u2" /\ m.data.timestamp = 1 /\ m.data.elements = <<R1>>}

NextSelect ==
    \/ \E e \in ScreenPoints : MouseDown(e)
    \/ MouseUp
    \/ \E tool \in SelectTools : setActiveTool(tool)
    \/ onAuthStateChanged
    \/ channelSubscribed
    \/ \E message \in SelectMessages : channelOnMessage(message)

SpecSelect == Init /\ [][NextSelect]_vars

\* The viewport: wheel, zoom buttons and pans with the select tool.  The
\* exploration starts with the select tool chosen and at a zoom the buttons
\* reach from 1 without moving the offset: 1 itself, the upper clamp (nine
\* presses of zoom-in) or the lower clamp (eleven presses of zoom-out).
ZoomStarts == {Q(1), ZoomCeiling, ZoomFloor}

InitZoom ==
    \E z \in ZoomStarts :
        InitState("select", [x |-> Q(0), y |-> Q(0), zoom |-> z],
                  Event("init", [kind |-> "init"]))

NextZoom ==
    \/ \E e \in WheelEvents : handleWheel(e)
    \/ handleZoomIn
    \/ handleZoomOut
    \/ \E e \in PanPoints : historyIndex < MaxGestures /\ MouseDown(e)
    \/ \E e \in PanPoints : MouseMove(e)
    \/ MouseUp

SpecZoom == InitZoom /\ [][NextZoom]_vars

\* UserCursors: style={{ left: (cursor.x - pan.x) * zoom,
\*                       top: (cursor.y - pan.y) * zoom }}, in the container
\* the canvas fills; Canvas passes zoom={viewport.zoom} pan={viewport}.
\* The translate(-2px, -2px) of the style puts the tip of the drawn pointer,
\* at (2, 2) of its svg, on (left, top).
UserCursors(cursors, zoom, pan) ==
    [k \in 1..Len(cursors) |->
        [userId |-> cursors[k].userId,
         left |-> QMul(QSub(cursors[k].x, pan.x), zoom),
         top |-> QMul(QSub(cursors[k].y, pan.y), zoom)]]

\* The cursor overlay: cursor messages of another user while the local
\* user pans and zooms.
OverlayMessages ==
    {m \in CursorMoveMessages : m.userId = "u2" /\ m.data.timestamp = 1}

NextOverlay ==
    \/ onAuthStateChanged
    \/ channelSubscribed
    \/ \E message \in OverlayMessages : channelOnMessage(message)
    \/ \E e \in PanPoints : historyIndex < MaxGestures /\ MouseDown(e)
    \/ \E e \in PanPoints : MouseMove(e)
    \/ MouseUp
    \/ handleZoomIn
    \/ handleZoomOut

SpecOverlay == InitZoom /\ [][NextOverlay]_vars

\* Persistence: rectangles drawn and selected in a session, the load of the
\* session and the end of every save.
NextPersist ==
    \/ \E e \in ScreenPoints : DrawingsLeft /\ MouseDown(e)
    \/ MouseUp
    \/ handleUndo
    \/ handleRedo
    \/ onAuthStateChanged
    \/ \E tool \in SelectTools : setActiveTool(tool)
    \/ createSession
    \/ \E loadedElements \in LoadResults : loadEffect(loadedElements)
    \/ loadElementsFailed
    \/ \E outcome \in SaveOutcomes : saveElementsSettled(outcome)

SpecPersist == Init /\ [][NextPersist]_vars

\* Cursor broadcasts: pointer moves while idle, panning and drawing, before
\* and after sign-in, and the outcome of each publish.  The exploration
\* starts with the select tool chosen at the upper clamp of the zoom, so that
\* world and screen positions differ.
InitCursor ==
    InitState("select", [x |-> Q(0), y |-> Q(0), zoom |-> ZoomCeiling],
              Event("init", [kind |-> "init"]))

NextCursor ==
    \/ \E e \in PanPoints :
          DrawingsLeft /\ historyIndex < MaxGestures /\ MouseDown(e)
    \/ \E e \in PanPoints : MouseMove(e)
    \/ MouseUp
    \/ \E tool \in ToolsUsed : setActiveTool(tool)
    \/ onAuthStateChanged
    \/ \E outcome \in PublishOutcomes : publishSettled(outcome)

SpecCursor == InitCursor /\ [][NextCursor]_vars

\* isPointInElement as a function of its arguments: the pair is drawn at
\* the start and the function is applied to it.
HitKinds  == {"rectangle", "sticky-note", "circle", "path", "line", "arrow",
              "text", "rich-note"}
HitSizes  == {-2, 0, 2, 3, 4}
HitCoords == -1 .. 5

ExampleCircle == [id |-> "c", type |-> "circle", x |-> Q(40), y |-> Q(40),
                  width |-> Q(20), height |-> Q(20)]

HitElements ==
    {[id |-> "h", type |-> k, x |-> Q(0), y |-> Q(1),
      width |-> Q(w), height |-> Q(h)] :
        k \in HitKinds, w \in HitSizes, h \in HitSizes}
    \cup {[id |-> "h", type |-> k, x |-> Q(0), y |-> Q(1)] :
            k \in {"path", "text"}}
    \cup {ExampleCircle}

HitPoints ==
    {QPt(i, j) : i \in HitCoords, j \in HitCoords}
    \cup {QPt(50, 59), QPt(50, 60), QPt(50, 61), QPt(57, 57), QPt(58, 58)}

InitHitTest ==
    \E p \in HitPoints, el \in HitElements :
        InitState("select", InitialViewport,
                  Event("hitInput", [point |-> p, element |-> el,
                                     result |-> FALSE]))

hitTest ==
    /\ lastEvent.kind = "hitInput"
    /\ lastEvent' =
          [lastEvent EXCEPT
              !.kind = "hitTest",
              !.result = isPointInElement(lastEvent.point, lastEvent.element)]
    /\ UNCHANGED <<appVars, toolVars, viewport, canvasVars, collaboration,
                   currentUser, subscribed, published, currentSession,
                   loadStatus, saveRequest, remoteDirty, run, gesture,
                   zoomEvents, storeVars, noteVars>>

NextHitTest == hitTest

SpecHitTest == InitHitTest /\ [][NextHitTest]_vars

----------------------------------------------------------------------------
(* Properties *)

RemoteUpdate(ev) ==
    /\ ev.kind = "message"
    /\ ev.msg.type = "elements-update"
    /\ ev.msg.userId # Me

Idle == ~drawingState.isDrawing /\ ~isPanning

HasRemoteElement(els) == \E i \in 1..Len(els) : els[i].id \in RemoteIds

\* C1: delivering an elements-update of another user makes the local
\* collection exactly the payload and leaves the snapshot sequence and the
\* history index as they were.
C1_RemoteUpdateReplaces ==
    [][RemoteUpdate(lastEvent')
         => /\ elements' = lastEvent'.msg.data.elements
            /\ history' = history
            /\ historyIndex' = historyIndex]_vars

\* A remote payload is on display, the local snapshot it replaced was not
\* empty and shares no element with it, and the history still ends there.
C1_Witness ==
    /\ RemoteUpdate(lastEvent)
    /\ ~lastEvent.dirty
    /\ elements = lastEvent.msg.data.elements
    /\ elements # <<>>
    /\ historyIndex = 2
    /\ history[historyIndex + 1] # <<>>
    /\ \A i \in 1..Len(elements) : \A j \in 1..Len(history[historyIndex + 1]) :
          elements[i].id # history[historyIndex + 1][j].id

\* C2 as stated: whenever no drawing gesture is in progress, snapshots[index]
\* is the displayed collection.
C2_Original ==
    ~drawingState.isDrawing => history[historyIndex + 1] = elements

\* C2 amended: whenever no drawing gesture is in progress, snapshots[index]
\* is the displayed collection, unless a remote elements-update has replaced
\* the display and no local history operation has taken effect since.
C2_HistoryMatchesDisplay ==
    (~drawingState.isDrawing /\ ~remoteDirty)
        => history[historyIndex + 1] = elements

\* A local commit on top of a remote replacement: the display holds a remote
\* element and is the current snapshot again.
C2_Witness ==
    /\ ~drawingState.isDrawing
    /\ ~remoteDirty
    /\ lastEvent.recorded
    /\ historyIndex = 2
    /\ HasRemoteElement(elements)
    /\ history[historyIndex + 1] = elements

\* C3: with a remote replacement on display (no local commit since), an
\* enabled undo displays snapshots[index - 1] and decrements the index,
\* whatever the remote replacement contained.
C3_UndoIgnoresRemote ==
    [][(lastEvent'.kind = "undo" /\ lastEvent'.dirty /\ historyIndex > 0)
         => /\ elements' = history[(historyIndex - 1) + 1]
            /\ historyIndex' = historyIndex - 1
            /\ history' = history]_vars

\* An undo that ran over a remote replacement different from the last local
\* snapshot.
C3_Witness ==
    /\ lastEvent.kind = "undo"
    /\ lastEvent.dirty
    /\ lastEvent.effective
    /\ lastEvent.before.elements # <<>>
    /\ lastEvent.before.elements # history[lastEvent.before.historyIndex + 1]
    /\ history[lastEvent.before.historyIndex + 1] # <<>>
    /\ elements = history[historyIndex + 1]

\* C4 as stated: an undo or a redo never removes from the local collection
\* an element that another user's elements-update introduced.
C4_UndoKeepsRemoteElements ==
    [][lastEvent'.kind \in {"undo", "redo"}
         => \A i \in 1..Len(elements) :
               elements[i].id \in RemoteIds
                 => \E j \in 1..Len(elements') :
                       elements'[j].id = elements[i].id]_vars

\* C5 as stated: from an idle state in which undo is enabled, an undo
\* immediately followed by a redo leaves the displayed collection and the
\* history index as they were before the undo.
C5_UndoRedoRestores ==
    (lastEvent.kind = "redo" /\ lastEvent.undone # Null
       /\ lastEvent.undone.idle)
        => /\ elements = lastEvent.undone.elements
           /\ historyIndex = lastEvent.undone.historyIndex

\* C6: from the initial state, n recorded commits and then n undos leave the
\* collection empty and the index at 0; one more undo changes nothing.
C6_UndoAllCommits ==
    [][(lastEvent'.kind = "undo" /\ run'.phase = "undos")
         => /\ run'.undos = run'.commits
                => (elements' = <<>> /\ historyIndex' = 0)
            /\ run'.undos > run'.commits
                => UNCHANGED <<elements, historyIndex, history>>]_vars

\* Two commits, two undos and a third undo that found nothing to undo.
C6_Witness ==
    /\ lastEvent.kind = "undo"
    /\ ~lastEvent.effective
    /\ run.phase = "undos"
    /\ run.commits = 2
    /\ run.undos = 3
    /\ Len(history) = 3
    /\ elements = <<>>
    /\ historyIndex = 0

\* C7: a recorded commit truncates the snapshots to [0..index], appends the
\* new collection and points the index at it, so a redo right after it
\* changes nothing.
C7_CommitDiscardsRedo ==
    [][/\ lastEvent'.recorded
           => /\ history' = Append(SubSeq(history, 1, historyIndex + 1),
                                   elements')
              /\ historyIndex' = Len(history') - 1
       /\ (lastEvent.recorded /\ lastEvent'.kind = "redo")
           => UNCHANGED <<elements, history, historyIndex>>]_vars

\* Commit A, commit B, undo, commit C, redo: the redo found nothing.
C7_Witness ==
    /\ lastEvent.kind = "redo"
    /\ lastEvent.afterTruncate
    /\ ~lastEvent.effective
    /\ Len(history) = 3
    /\ historyIndex = 2
    /\ elements = history[3]

\* C8: the snapshot sequence is never empty and 0 <= index < length.
C8_IndexInRange ==
    /\ Len(history) >= 1
    /\ 0 <= historyIndex
    /\ historyIndex < Len(history)

\* The load has reset the history and an undo has reached its lower end.
C8_Witness ==
    /\ loadStatus = "done"
    /\ history = <<(<<>>), <<S1>>>>
    /\ lastEvent.kind = "undo"
    /\ ~lastEvent.effective
    /\ historyIndex = 0

\* C9: of two elements-updates of other users delivered one after the other,
\* the one delivered last is on display, whatever their timestamps and
\* senders.
C9_LastDeliveredWins ==
    (RemoteUpdate(lastEvent) /\ lastEvent.prev.type = "elements-update")
        => elements = lastEvent.msg.data.elements

\* The update delivered last is older than, and from another sender than,
\* the one delivered before it.
C9_Witness ==
    /\ RemoteUpdate(lastEvent)
    /\ lastEvent.prev.type = "elements-update"
    /\ lastEvent.prev.userId \notin {Me, lastEvent.msg.userId}
    /\ lastEvent.prev.data.timestamp > lastEvent.msg.data.timestamp
    /\ lastEvent.prev.data.elements # lastEvent.msg.data.elements
    /\ elements = lastEvent.msg.data.elements

\* C10: a message carrying the local user's id changes neither the elements,
\* the history, the cursors nor the users.
C10_EchoIgnored ==
    [][(lastEvent'.kind = "message" /\ lastEvent'.msg.userId = Me)
         => UNCHANGED <<elements, history, historyIndex, collaboration>>]_vars

\* An own elements-update came back while the display and the cursors held
\* something else.
C10_Witness ==
    /\ lastEvent.kind = "message"
    /\ lastEvent.msg.userId = Me
    /\ lastEvent.msg.type = "elements-update"
    /\ elements # lastEvent.msg.data.elements
    /\ elements # <<>>
    /\ collaboration.cursors # <<>>
    /\ collaboration.users # <<>>

\* The positions the cursor collection holds for a user.
CursorsOf(cursors, userId) ==
    {Pt(cursors[i].x, cursors[i].y) :
        i \in {k \in 1..Len(cursors) : cursors[k].userId = userId}}

RemoteCursorMove(ev) ==
    /\ ev.kind = "message"
    /\ ev.msg.type = "cursor-move"
    /\ ev.msg.userId # Me

\* C11: the cursor collection is a map keyed by userId with last received
\* wins: it never holds two entries of one user, a cursor-move of a remote
\* user makes that user's entry the x,y of that message whatever its
\* timestamp, and no other step changes that user's entry.
C11_CursorsLastReceivedWins ==
    [][\A u \in RemoteUsers \cup {Me} :
          /\ Cardinality({k \in 1..Len(collaboration'.cursors) :
                             collaboration'.cursors[k].userId = u}) <= 1
          /\ IF RemoteCursorMove(lastEvent') /\ lastEvent'.msg.userId = u
             THEN CursorsOf(collaboration'.cursors, u)
                    = {Pt(lastEvent'.msg.data.x, lastEvent'.msg.data.y)}
             ELSE CursorsOf(collaboration'.cursors, u)
                    = CursorsOf(collaboration.cursors, u)]_vars

\* Two cursor-moves of u2 delivered one after the other, the second with the
\* older timestamp and another position, while u3 has an entry too.
C11_Witness ==
    /\ RemoteCursorMove(lastEvent)
    /\ lastEvent.msg.userId = "u2"
    /\ lastEvent.prev.type = "cursor-move"
    /\ lastEvent.prev.userId = "u2"
    /\ lastEvent.prev.data.timestamp > lastEvent.msg.data.timestamp
    /\ Pt(lastEvent.prev.data.x, lastEvent.prev.data.y)
          # Pt(lastEvent.msg.data.x, lastEvent.msg.data.y)
    /\ Len(collaboration.cursors) = 2
    /\ CursorsOf(collaboration.cursors, "u3") # {}
    /\ CursorsOf(collaboration.cursors, "u2")
          = {Pt(lastEvent.msg.data.x, lastEvent.msg.data.y)}

\* C12: a presence notification replaces users by the notified member list
\* and sets isConnected; the cursors, the elements and the history stay as
\* they were, also the cursor of a user who is no longer a member.
C12_PresenceFrame ==
    [][lastEvent'.kind = "presence"
         => /\ collaboration'.users =
                  [k \in 1..Len(lastEvent'.users) |->
                      [id |-> lastEvent'.users[k], email |-> "",
                       displayName |-> lastEvent'.users[k]]]
            /\ collaboration'.isConnected
            /\ collaboration'.cursors = collaboration.cursors
            /\ UNCHANGED <<elements, history, historyIndex>>]_vars

\* u2 was a member with a cursor on the board and is missing from the new
\* member list; the cursor is still there.
C12_Witness ==
    /\ lastEvent.kind = "presence"
    /\ \E k \in 1..Len(lastEvent.usersBefore) :
           lastEvent.usersBefore[k].id = "u2"
    /\ lastEvent.users = <<Me>>
    /\ Len(collaboration.users) = 1
    /\ CursorsOf(collaboration.cursors, "u2") # {}
    /\ elements # <<>>

Drawing ==
    /\ drawingState.isDrawing
    /\ drawingState.currentElement # Null
    /\ ~isPanning

NoDrawing == [isDrawing |-> FALSE, currentPath |-> <<>>,
              currentElement |-> Null]

\* What a pointer-up in the Drawing state does to the collection, the
\* history and the drawing state.
CommitEffect ==
    /\ elements' = Append(elements, drawingState.currentElement)
    /\ history' = Append(SubSeq(history, 1, historyIndex + 1), elements')
    /\ historyIndex' = historyIndex + 1
    /\ drawingState' = NoDrawing

\* C13 as stated: a pointer-up in the Drawing state appends the in-progress
\* element, pushes one snapshot equal to the new collection, clears the
\* drawing state and broadcasts one elements-update with the new collection.
C13_Original ==
    [][(lastEvent'.kind = "mouseUp" /\ Drawing)
         => /\ CommitEffect
            /\ Len(published') = 1
            /\ published'[1].type = "elements-update"
            /\ published'[1].data.elements = elements']_vars

\* C13 amended: a pointer-up in the Drawing state appends the in-progress
\* element, pushes one snapshot equal to the new collection and clears the
\* drawing state; it broadcasts one elements-update with the new collection
\* when a user is signed in and nothing when none is.
C13_GestureCommit ==
    [][(lastEvent'.kind = "mouseUp" /\ Drawing)
         => /\ CommitEffect
            /\ published' =
                  IF currentUser # NoUser
                  THEN <<[type |-> "elements-update", userId |-> currentUser,
                          data |-> [elements |-> elements']]>>
                  ELSE <<>>]_vars

\* A signed-in commit on top of a remote element, made after an undo: the
\* new element is last, the redo branch is gone, one message went out.
C13_Witness ==
    /\ lastEvent.kind = "mouseUp"
    /\ lastEvent.recorded
    /\ lastEvent.truncated
    /\ currentUser = Me
    /\ Len(published) = 1
    /\ published[1].data.elements = elements
    /\ Len(elements) = 2
    /\ elements[1].id \in RemoteIds
    /\ elements[2].id \notin RemoteIds
    /\ history[historyIndex + 1] = elements
    /\ drawingState = NoDrawing

\* C14 as stated: after every pointer-up the machine is idle: not panning,
\* not drawing, no in-progress element.
C14_PointerUpReturnsToIdle ==
    lastEvent.kind = "mouseUp"
        => /\ ~isPanning
           /\ ~drawingState.isDrawing
           /\ drawingState.currentElement = Null

\* C15: a rectangle, circle or line gesture from pointer-down at o with its
\* last pointer-move at p commits an element of the tool's kind at origin o
\* with width p.x - o.x and height p.y - o.y, signs kept, in the stroke
\* colour and width that were active at pointer-down.
C15_ShapeGeometry ==
    (/\ lastEvent.kind = "mouseUp"
     /\ lastEvent.gesture # Null
     /\ lastEvent.gesture.tool \in {"rectangle", "circle", "line"}
     /\ lastEvent.gesture.last # Null)
        => LET g  == lastEvent.gesture
               el == elements[Len(elements)]
           IN  /\ el.type = g.tool
               /\ el.x = g.origin.x
               /\ el.y = g.origin.y
               /\ el.width = QSub(g.last.x, g.origin.x)
               /\ el.height = QSub(g.last.y, g.origin.y)
               /\ el.color = g.color
               /\ el.strokeWidth = g.strokeWidth

\* The rectangle from (10,10) dragged to (110,60) in #000000 and width 2,
\* committed after the toolbar colour was changed during the drag.
C15_Witness ==
    /\ lastEvent.kind = "mouseUp"
    /\ lastEvent.gesture # Null
    /\ lastEvent.gesture.tool = "rectangle"
    /\ lastEvent.gesture.origin = QPt(10, 10)
    /\ lastEvent.gesture.last = QPt(110, 60)
    /\ strokeColor # "#000000"
    /\ elements[Len(elements)].type = "rectangle"
    /\ elements[Len(elements)].x = Q(10)
    /\ elements[Len(elements)].y = Q(10)
    /\ elements[Len(elements)].width = Q(100)
    /\ elements[Len(elements)].height = Q(50)
    /\ elements[Len(elements)].color = "#000000"
    /\ elements[Len(elements)].strokeWidth = 2

\* The indices of the elements that contain a point.
HitsAt(els, point) ==
    {k \in 1..Len(els) : isPointInElement(point, els[k])}

\* C16: a pointer-down with the select tool on a point that several elements
\* contain selects the one with the smallest index and no other.
C16_FirstMatchSelected ==
    [][(/\ lastEvent'.kind = "mouseDown"
        /\ activeTool = "select"
        /\ HitsAt(elements, lastEvent'.point) # {})
         => /\ Len(elements') = Len(elements)
            /\ \A k \in 1..Len(elements') :
                  /\ elements'[k].id = elements[k].id
                  /\ elements'[k].selected
                       = (/\ k \in HitsAt(elements, lastEvent'.point)
                          /\ \A j \in HitsAt(elements, lastEvent'.point) :
                                k <= j)]_vars

\* A click on a point inside both a remote rectangle and a rectangle drawn
\* over it later: the earlier one is selected.
C16_Witness ==
    /\ lastEvent.kind = "mouseDown"
    /\ lastEvent.recorded
    /\ Len(elements) = 2
    /\ HitsAt(elements, lastEvent.point) = {1, 2}
    /\ elements[1].id \in RemoteIds
    /\ elements[2].id \notin RemoteIds
    /\ elements[1].selected
    /\ ~elements[2].selected

\* The reference predicate on integer coordinates: closed box for rectangle
\* and sticky-note; for circle, four times the squared distance from the box
\* centre at most min(width, height)^2 with min(width, height) >= 0; false
\* for every other kind.
InBoxRef(px, py, x, y, w, h) ==
    /\ x <= px /\ px <= x + w
    /\ y <= py /\ py <= y + h

InCircleRef(px, py, x, y, w, h) ==
    LET m == IF w <= h THEN w ELSE h
    IN  /\ m >= 0
        /\ (2 * px - (2 * x + w)) * (2 * px - (2 * x + w))
             + (2 * py - (2 * y + h)) * (2 * py - (2 * y + h)) <= m * m

PointInElementRef(point, element) ==
    IF {"width", "height"} \subseteq DOMAIN element
    THEN CASE element.type \in {"rectangle", "sticky-note"} ->
                InBoxRef(point.x.n, point.y.n, element.x.n, element.y.n,
                         element.width.n, element.height.n)
           [] element.type = "circle" ->
                InCircleRef(point.x.n, point.y.n, element.x.n, element.y.n,
                            element.width.n, element.height.n)
           [] OTHER -> FALSE
    ELSE FALSE

\* C17: on integer points and elements isPointInElement is the reference
\* predicate: closed box containment for rectangle and sticky-note, distance
\* from the box centre at most min(width, height)/2 for circle, false for
\* path, line, arrow, text and every other kind.
C17_HitTestMatchesReference ==
    lastEvent.kind = "hitTest"
        => lastEvent.result
             = PointInElementRef(lastEvent.point, lastEvent.element)

\* The circle of centre (50,50) and radius 10 contains (50,59).
C17_Witness ==
    /\ lastEvent.kind = "hitTest"
    /\ lastEvent.element = ExampleCircle
    /\ lastEvent.point = QPt(50, 59)
    /\ lastEvent.result

\* C18: after every wheel, zoom-button and pan event the zoom lies between
\* 0.1 and 5, so it is never 0.
C18_ZoomClamped ==
    /\ QLe(Frac(1, 10), viewport.zoom)
    /\ QLe(viewport.zoom, Q(5))
    /\ viewport.zoom.n # 0

\* A zoom-in pressed at 4.5, with the offset moved by earlier events, was
\* cut at 5.
C18_Witness ==
    /\ lastEvent.kind = "zoomIn"
    /\ lastEvent.viewportBefore.zoom = Frac(9, 2)
    /\ viewport.zoom = Q(5)
    /\ viewport.x # Q(0)

\* The world point under the screen position s for a viewport v.
WorldUnder(s, v) ==
    Pt(QDiv(QSub(s.x, v.x), v.zoom), QDiv(QSub(s.y, v.y), v.zoom))

\* C19: a wheel event keeps the world point under the cursor: (mouse -
\* offset)/zoom is the same before and after, also when the new zoom was
\* clamped.
C19_ZoomToCursor ==
    [][lastEvent'.kind = "wheel"
         => WorldUnder(lastEvent'.point, viewport)
              = WorldUnder(lastEvent'.point, viewport')]_vars

\* A wheel turn whose factor would have passed 5: the zoom was clamped and
\* the offset moved.
C19_Witness ==
    /\ lastEvent.kind = "wheel"
    /\ viewport.zoom = Q(5)
    /\ QLt(lastEvent.viewportBefore.zoom, Q(5))
    /\ QLt(Q(5), QMul(lastEvent.viewportBefore.zoom, Frac(11, 10)))
    /\ viewport.x # lastEvent.viewportBefore.x
    /\ WorldUnder(lastEvent.point, viewport)
         = WorldUnder(lastEvent.point, lastEvent.viewportBefore)

TransformPoints == {QPt(3, 2), QPt(-7, 11)}

\* C20: screenToCanvas inverts the renderer's transform in both directions:
\* screenToCanvas(s) * zoom + offset = s for every screen point s, and
\* screenToCanvas(w * zoom + offset) = w for every world point w.
C20_TransformInverse ==
    \A q \in TransformPoints :
        /\ forwardTransform(screenToCanvas(q.x, q.y)) = q
        /\ screenToCanvas(forwardTransform(q).x, forwardTransform(q).y) = q

\* A viewport with a fractional zoom strictly inside the clamp and a
\* fractional offset, reached by wheel turns.
C20_Witness ==
    /\ viewport.zoom.d > 1
    /\ QLt(Frac(1, 10), viewport.zoom)
    /\ QLt(viewport.zoom, Q(5))
    /\ viewport.x.d > 1
    /\ viewport.y # Q(0)
    /\ \A q \in TransformPoints :
          screenToCanvas(q.x, q.y) # q

\* C21 as stated: every pointer-move, idle, panning or drawing, signed in or
\* not, publishes exactly one cursor-move with the world position of the
\* pointer under the viewport the handler started with.
C21_Original ==
    [][lastEvent'.kind = "mouseMove"
         => /\ Len(published') = 1
            /\ published'[1].type = "cursor-move"
            /\ Pt(published'[1].data.x, published'[1].data.y)
                  = WorldUnder(lastEvent'.screen, viewport)]_vars

\* C21 amended: every pointer-move, idle, panning or drawing, publishes
\* exactly one cursor-move with the world position of the pointer under the
\* viewport the handler started with when a user is signed in, and nothing
\* when none is.
C21_CursorBroadcast ==
    [][lastEvent'.kind = "mouseMove"
         => published' =
              IF currentUser # NoUser
              THEN <<[type |-> "cursor-move", userId |-> currentUser,
                      data |-> [x |-> WorldUnder(lastEvent'.screen,
                                                 viewport).x,
                                y |-> WorldUnder(lastEvent'.screen,
                                                 viewport).y]]>>
              ELSE <<>>]_vars

\* A signed-in move during a pan at a zoom other than 1: the position sent
\* is neither the screen position nor the world position under the viewport
\* the pan produced.
C21_Witness ==
    /\ lastEvent.kind = "mouseMove"
    /\ isPanning
    /\ currentUser = Me
    /\ viewport.zoom # Q(1)
    /\ Len(published) = 1
    /\ Pt(published[1].data.x, published[1].data.y) # lastEvent.screen
    /\ Pt(published[1].data.x, published[1].data.y)
          # WorldUnder(lastEvent.screen, viewport)

\* C22: the settling of a publish, resolved or rejected, changes neither
\* the collection, the history, the index, the drawing state nor the pan
\* state and publishes nothing again; a pointer-up in the Drawing state
\* commits whatever became of the publishes before it.
C22_DrawingIgnoresNetwork ==
    [][/\ lastEvent'.kind = "publishSettled"
           => /\ UNCHANGED <<elements, history, historyIndex, drawingState,
                             isPanning>>
              /\ published' = <<>>
       /\ (lastEvent'.kind = "mouseUp" /\ Drawing) => CommitEffect]_vars

\* The elements-update of a commit was rejected: the committed element is
\* on display and in the history, the machine is idle, nothing is queued.
C22_Witness ==
    /\ lastEvent.kind = "publishSettled"
    /\ lastEvent.outcome = "rejected"
    /\ lastEvent.msg.type = "elements-update"
    /\ lastEvent.msg.data.elements = elements
    /\ elements # <<>>
    /\ history[historyIndex + 1] = elements
    /\ drawingState = NoDrawing
    /\ ~isPanning
    /\ published = <<>>

PersistenceFailed(ev) ==
    \/ ev.kind = "loadFailed"
    \/ (ev.kind = "saveSettled" /\ ev.outcome # "ok")

\* C23: a save or a load that fails leaves the displayed collection, the
\* snapshots and the index exactly as they were.
C23_FailureKeepsMemory ==
    [][PersistenceFailed(lastEvent')
         => UNCHANGED <<elements, history, historyIndex>>]_vars

\* The save of the second commit failed in createMany after the records of
\* the first were deleted: the store is empty, the display and the history
\* still hold both commits.
C23_Witness ==
    /\ lastEvent.kind = "saveSettled"
    /\ lastEvent.outcome = "failCreate"
    /\ lastEvent.storeBefore # <<>>
    /\ store = <<>>
    /\ persistError = SaveFailedMessage
    /\ elements = lastEvent.saved
    /\ elements # <<>>
    /\ historyIndex = 2
    /\ history[historyIndex + 1] = elements

\* C24 as stated: every save and every load that fails raises a user
\* notification.
C24_FailureNotified ==
    [][PersistenceFailed(lastEvent') => toasts' > toasts]_vars

\* C25 as stated: no record in the store carries selected = true.
C25_SelectedNeverStored ==
    \A k \in 1..Len(store) :
        ~(/\ "selected" \in DOMAIN store[k].elementData
          /\ store[k].elementData.selected)

\* C26: a delete attempt removes the comment exactly when the card's user is
\* the comment's author; an attempt by anyone else, or with nobody signed
\* in, issues no update and leaves the note as it was.  Resolve / unresolve
\* issues its update whoever the card's user is.
C26_DeleteAuthorGated ==
    [][/\ lastEvent'.kind = "deleteAttempt" =>
            LET c == lastEvent'.comment IN
            /\ richNote' = richNote
            /\ IF cardUser # NoUser /\ cardUser = c.authorId
               THEN /\ Len(updates') = 1
                    /\ updates'[1].comments =
                          SelectSeq(richNote.comments,
                                    LAMBDA d : d.id # c.id)
               ELSE updates' = <<>>
       /\ lastEvent'.kind = "toggle" =>
            LET c == lastEvent'.comment IN
            /\ Len(updates') = 1
            /\ Len(updates'[1].comments) = Len(richNote.comments)
            /\ \A k \in 1..Len(richNote.comments) :
                  updates'[1].comments[k] =
                     IF richNote.comments[k].id = c.id
                     THEN [richNote.comments[k] EXCEPT
                              !.resolved = ~c.resolved]
                     ELSE richNote.comments[k]
      ]_vars

\* A signed-in user who has a comment of their own has gone for the Delete
\* of another user's comment, one that a non-author had resolved: nothing
\* was issued and the comment is still there.
C26_Witness ==
    /\ lastEvent.kind = "deleteAttempt"
    /\ cardUser = Me
    /\ lastEvent.comment.authorId = "u2"
    /\ lastEvent.comment.resolved
    /\ updates = <<>>
    /\ \E k \in 1..Len(richNote.comments) :
          richNote.comments[k] = lastEvent.comment
    /\ \E k \in 1..Len(richNote.comments) :
          richNote.comments[k].authorId = Me

\* C27: an edit issues no update and leaves exactly one pending timeout,
\* the one of this edit; a timeout that fires leaves none pending and issues
\* one update carrying the card's content when that differs from the stored
\* content of the note, none when it equals it.
C27_DebouncedCommit ==
    [][/\ lastEvent'.kind = "contentChange" =>
            /\ updates' = <<>>
            /\ richNote' = richNote
            /\ Len(timeouts') = 1
            /\ timeouts'[1].content = content'
       /\ lastEvent'.kind = "timeout" =>
            /\ timeouts' = <<>>
            /\ IF content = richNote.content
               THEN updates' = <<>>
               ELSE /\ Len(updates') = 1
                    /\ updates'[1].content = content
                    /\ updates'[1].comments = richNote.comments
      ]_vars

\* Two edits have followed one another with no timeout between them, then
\* the timeout has fired: one update with the content of the second edit,
\* which is not the content the burst started from.
C27_Witness ==
    /\ lastEvent.kind = "timeout"
    /\ lastEvent.burst = 2
    /\ Len(updates) = 1
    /\ updates[1].content = content
    /\ updates[1].content # richNote.content
    /\ timeouts = <<>>

\* C28 as stated: the canvas is never panning and drawing at once.
C28_PanDrawExclusive ==
    ~(isPanning /\ drawingState.isDrawing)

\* C29 as stated: a pointer-down of the select tool, a pointer-move, the
\* pointer-up that ends a pan, a wheel zoom, undo, redo and the delivery of
\* a remote update leave the snapshot sequence as it was; the sequence
\* changes only on the pointer-up that commits a drawing (the load of a
\* stored board, which starts the sequence anew, aside).
C29_OnlyCommitsRecorded ==
    [][/\ (\/ (lastEvent'.kind = "mouseDown" /\ activeTool = "select")
           \/ lastEvent'.kind \in {"mouseMove", "wheel", "undo", "redo"}
           \/ (lastEvent'.kind = "mouseUp" /\ isPanning)
           \/ RemoteUpdate(lastEvent'))
          => history' = history
       /\ history' # history
          => \/ (lastEvent'.kind = "mouseUp" /\ Drawing)
             \/ lastEvent'.kind = "load"
      ]_vars

\* C30: the delivery of a remote elements-update leaves the drawing state
\* and the pan flag as they were; when it arrives in the Drawing state and a
\* pointer-up follows, the collection becomes the payload followed by the
\* in-progress element, and that collection is pushed as the new snapshot.
C30_RemoteDuringGesture ==
    [][/\ RemoteUpdate(lastEvent')
          => /\ drawingState' = drawingState
             /\ isPanning' = isPanning
       /\ (RemoteUpdate(lastEvent) /\ Drawing /\ lastEvent'.kind = "mouseUp")
          => /\ elements' = Append(lastEvent.msg.data.elements,
                                   drawingState.currentElement)
             /\ history' = Append(SubSeq(history, 1, historyIndex + 1),
                                  elements')
             /\ historyIndex' = historyIndex + 1
             /\ drawingState' = NoDrawing
      ]_vars

\* A pen stroke has been committed right after a remote update that arrived
\* while it was being drawn: the remote element comes first, the stroke
\* last, and the current snapshot is that collection.
C30_Witness ==
    /\ lastEvent.kind = "mouseUp"
    /\ lastEvent.gesture # Null
    /\ lastEvent.afterRemote
    /\ Len(elements) = 2
    /\ elements[1].id \in RemoteIds
    /\ elements[2].id \notin RemoteIds
    /\ history[historyIndex + 1] = elements
    /\ \A k \in 1..historyIndex : ~HasRemoteElement(history[k])

\* C31: an undo or a redo changes nothing but the displayed collection and
\* the history index: the snapshot sequence, the store and everything else
\* are as before, no message is published and no save is started.
C31_UndoRedoLocal ==
    [][lastEvent'.kind \in {"undo", "redo"}
         => /\ history' = history
            /\ published' = <<>>
            /\ saveRequest' = <<>>
            /\ store' = store
            /\ UNCHANGED <<toolVars, viewport, canvasVars, collaboration,
                           currentUser, subscribed, currentSession,
                           loadStatus, persistError, toasts>>
      ]_vars

\* A signed-in user with a session has undone a commit that was saved: the
\* display went back, the store still holds the collection from before the
\* undo and nothing was published or sent to be saved.
C31_Witness ==
    /\ lastEvent.kind = "undo"
    /\ lastEvent.effective
    /\ currentUser = Me
    /\ currentSession # NoSession
    /\ store # <<>>
    /\ store = StoredRecords(lastEvent.before.elements)
    /\ elements # lastEvent.before.elements
    /\ published = <<>>
    /\ saveRequest = <<>>

\* C32 as stated: when no saveElements call is under way, the records of
\* the store are those of the collection of the call started last (the last
\* snapshot of the history, every recorded change having started a call):
\* the same records, each once.
C32_NewestSaveWins ==
    (/\ saves = <<>>
     /\ saveRequest = <<>>
     /\ loadStatus = "done"
     /\ Len(history) > 1)
        => LET newest == StoredRecords(history[Len(history)])
           IN  /\ Len(store) = Len(newest)
               /\ {store[k] : k \in 1..Len(store)}
                     = {newest[k] : k \in 1..Len(newest)}

\* C33 as stated: when the result of the load is applied, every element on
\* display stays on display and every snapshot that undo could reach, the
\* current one included, can still be reached.
C33_LoadKeepsLocalWork ==
    [][lastEvent'.kind = "load"
         => /\ \A k \in 1..Len(elements) :
                  \E j \in 1..Len(elements') :
                     elements'[j].id = elements[k].id
            /\ \A i \in 1..(historyIndex + 1) :
                  \E j \in 1..(historyIndex' + 1) :
                     history'[j] = history[i]
      ]_vars

\* C34 as stated: a pointer-move of a gesture whose in-progress element is
\* a freehand path appends the world point of the move to the points the
\* element had, whatever the active tool is by then.
C34_PointsAppendOnly ==
    [][(/\ lastEvent'.kind = "mouseMove"
        /\ Drawing
        /\ drawingState.currentElement.type = "path")
         => drawingState'.currentElement.points =
               Append(drawingState.currentElement.points, lastEvent'.point)
      ]_vars

Inverted(el) ==
    /\ el.type \in {"rectangle", "circle"}
    /\ (QLt(el.width, Q(0)) \/ QLt(el.height, Q(0)))

\* C35: no rectangle or circle of negative width or negative height is
\* ever selected, and a pointer-down of the select tool with such elements
\* only on the board hits nothing: it starts a pan.
C35_InvertedNeverHit ==
    /\ \A k \in 1..Len(elements) :
          Inverted(elements[k])
             => ~("selected" \in DOMAIN elements[k] /\ elements[k].selected)
    /\ (/\ lastEvent.kind = "mouseDown"
        /\ activeTool = "select"
        /\ \A k \in 1..Len(elements) : Inverted(elements[k]))
          => isPanning

\* The select tool went down in the middle of a box dragged left and up,
\* with the viewport at the origin: nothing was hit, a pan started and the
\* box is not selected.
C35_Witness ==
    /\ lastEvent.kind = "mouseDown"
    /\ activeTool = "select"
    /\ lastEvent.point = QPt(60, 35)
    /\ Len(elements) = 1
    /\ elements[1].type = "rectangle"
    /\ elements[1].x = Q(110) /\ elements[1].y = Q(60)
    /\ elements[1].width = Q(-100) /\ elements[1].height = Q(-50)
    /\ ~elements[1].selected
    /\ isPanning

\* C36: a pointer-down of the select tool in the idle state leaves the
\* elements as they were but for the selected flag, which is set on the hit
\* element and cleared on every other; with no element hit the canvas is
\* panning with the event's screen point as anchor, with an element hit it
\* is not; the drawing state is untouched.
C36_SelectDown ==
    [][(/\ lastEvent'.kind = "mouseDown"
        /\ activeTool = "select"
        /\ Idle)
         => LET hits == HitsAt(elements, lastEvent'.point)
            IN  /\ Len(elements') = Len(elements)
                /\ \A k \in 1..Len(elements) :
                      elements'[k] =
                         WithSelected(elements[k],
                                      /\ k \in hits
                                      /\ \A j \in hits : k <= j)
                /\ isPanning' = (hits = {})
                /\ hits = {}
                     => WorldUnder(lastPanPoint', viewport)
                           = lastEvent'.point
                /\ hits # {} => lastPanPoint' = lastPanPoint
                /\ drawingState' = drawingState
      ]_vars

\* The select tool went down in the idle state on a point two elements
\* contain: the first is selected, the second is not, no pan has started
\* and nothing is being drawn.
C36_Witness ==
    /\ lastEvent.kind = "mouseDown"
    /\ lastEvent.recorded
    /\ activeTool = "select"
    /\ ~isPanning
    /\ ~drawingState.isDrawing
    /\ Len(elements) = 2
    /\ HitsAt(elements, lastEvent.point) = {1, 2}
    /\ elements[1].selected
    /\ ~elements[2].selected
    /\ viewport = InitialViewport

\* C37: a pointer-move while panning adds the screen distance from the
\* anchor to the viewport offset, undivided, and makes the screen point the
\* new anchor, so that offset minus anchor is the same all through a pan;
\* the zoom, the elements, the history, the drawing state and the id
\* counter are as before.
C37_PanByScreenDelta ==
    [][(lastEvent'.kind = "mouseMove" /\ isPanning)
         => LET s == lastEvent'.screen
            IN  /\ viewport'.x = QAdd(viewport.x, QSub(s.x, lastPanPoint.x))
                /\ viewport'.y = QAdd(viewport.y, QSub(s.y, lastPanPoint.y))
                /\ viewport'.zoom = viewport.zoom
                /\ lastPanPoint' = s
                /\ QSub(viewport'.x, lastPanPoint'.x)
                     = QSub(viewport.x, lastPanPoint.x)
                /\ QSub(viewport'.y, lastPanPoint'.y)
                     = QSub(viewport.y, lastPanPoint.y)
                /\ isPanning'
                /\ UNCHANGED <<elements, history, historyIndex,
                               drawingState, nextId>>
      ]_vars

\* A pan at the largest zoom, with no zoom event before it, has gone from
\* the screen point (1, 1) to (3, 2): the offset is (2, 1), not a fifth of
\* it.
C37_Witness ==
    /\ lastEvent.kind = "mouseMove"
    /\ isPanning
    /\ zoomEvents = 0
    /\ viewport.zoom = ZoomCeiling
    /\ lastPanPoint = QPt(3, 2)
    /\ viewport.x = Q(2)
    /\ viewport.y = Q(1)
    /\ elements = <<>>

\* C38 as stated: every remote cursor is drawn at the forward transform of
\* its world position, the screen point that screenToCanvas takes back to
\* that position.
C38_CursorAtWorldPosition ==
    LET shown == UserCursors(collaboration.cursors, viewport.zoom, viewport)
    IN  \A k \in 1..Len(shown) :
           LET world == Pt(collaboration.cursors[k].x,
                           collaboration.cursors[k].y)
           IN  /\ Pt(shown[k].left, shown[k].top) = forwardTransform(world)
               /\ screenToCanvas(QAdd(shown[k].left, RectLeft),
                                 QAdd(shown[k].top, RectTop)) = world

====
